---- MODULE Spec2Model ----
(***************************************************************************)
(* Arianna-HAR: event scheduler, segment buffer, action recognition,       *)
(* early intent, and the preparation / dispatch coordinator.               *)
(*                                                                         *)
(* Times are integers (one unit per detector tick for PoseTick stamps;    *)
(* behavior sleeps are counted in units of 0.05 s).  An optional value is  *)
(* a sequence of length 0 (None) or 1.  An optional number is NoneNum when *)
(* unset.                                                                  *)
(***************************************************************************)
EXTENDS Integers, Sequences, FiniteSets, TLC

(***************************************************************************)
(* Bounds of the model                                                     *)
(***************************************************************************)
MaxTicks == 4
MaxBatch == 2
MaxThreads == 2
MaxExtraTicks == 1
MaxEmits == 4
MaxEventsArg == 3
MaxBufTicks == 53
MaxSameLabel == 1
MaxResets == 1
MaxRawLen == 3
MaxDetTime == 5
MaxK == 2
MaxCoordCalls == 3
MaxStoreTicks == 4
MaxStoreResets == 2
MaxMinPrefixLen == 3
MaxMinMembers == 3
MaxIntentTicks == 5
StepSleeps == 2

(***************************************************************************)
(* config.py                                                               *)
(***************************************************************************)
MAX_POSE_BUFFER_LEN == 50

POSE_SET ==
  {"sitting", "standing", "raising_hand", "picking", "bowing", "walking", "drinking"}

\* keys of ACTION_DEFINITIONS in declaration (dict iteration) order
ActionNames ==
  << "drinking_water", "requesting_for_a_book", "waste_disposal",
     "picking_objects_from_floor", "washing_hands" >>

ACTION_DEFINITIONS ==
  ("drinking_water" :>
     << << "sitting", "standing", "walking", "picking", "walking", "sitting" >> >>)
  @@ ("requesting_for_a_book" :> << << "walking", "sitting", "raising_hand" >> >>)
  @@ ("waste_disposal" :>
     << << "sitting", "standing", "walking", "picking", "walking", "sitting",
           "drinking" >> >>)
  @@ ("picking_objects_from_floor" :> << << "standing", "picking", "raising_hand" >> >>)
  @@ ("washing_hands" :> << << "sitting", "standing", "walking", "bowing" >> >>)

\* ACTION_STEP_CONSTRAINTS = {}: no action has raw step constraints
ACTION_STEP_CONSTRAINTS == [a \in {} |-> << >>]

None == << >>
Some(x) == << x >>
NoneNum == 0 - 1

\* dict.get(k) / dict.get(k, default)
DictGet(d, k, default) == IF k \in DOMAIN d THEN d[k] ELSE default

\* dict.get(k) as an optional value
DictFind(d, k) == IF k \in DOMAIN d THEN Some(d[k]) ELSE None

\* d[k] = v
DictSet(d, k, v) == [x \in DOMAIN d \cup {k} |-> IF x = k THEN v ELSE d[x]]

ACTION_TO_TASK ==
  ("drinking_water" :> "localise_and_deliver_bottle_of_water")
  @@ ("requesting_for_a_book" :> "localise_and_deliver_book")
  @@ ("waste_disposal" :> "approach_collect_and_bin_can")
  @@ ("picking_objects_from_floor" :> "localise_and_deliver_object_from_floor")
  @@ ("washing_hands" :> "localise_and_deliver_sponge")

\* behavior step names of each task, in definition order
TASK_DEFINITIONS ==
  ("localise_and_deliver_bottle_of_water" :>
     << "search_object", "approach_object", "grasp_object", "search_object",
        "approach_object", "release_object", "return_to_start" >>)
  @@ ("localise_and_deliver_book" :>
     << "search_object", "approach_object", "grasp_object", "search_object",
        "approach_object", "release_object", "return_to_start" >>)
  @@ ("approach_collect_and_bin_can" :>
     << "search_object", "approach_object", "collect_object", "navigate_to",
        "drop_object", "return_to_start" >>)
  @@ ("localise_and_deliver_object_from_floor" :>
     << "search_object", "approach_object", "grasp_object", "search_object",
        "approach_object", "release_object", "return_to_start" >>)
  @@ ("localise_and_deliver_sponge" :>
     << "search_object", "approach_object", "grasp_object", "search_object",
        "approach_object", "release_object", "return_to_start" >>)

FAMILY_PRETASK_BY_PREFIX ==
  (<< "sitting", "standing", "walking" >> :> "pretask_observe_and_scan")
  @@ (<< "sitting", "standing", "walking", "picking" >> :> "pretask_scan_pick_area")
  @@ (<< "standing", "picking" >> :> "pretask_scan_floor_area")
  @@ (<< "walking", "sitting" >> :> "pretask_scan_book_area")

PRETASK_DEFINITIONS ==
  ("pretask_observe_and_scan" :>
     << "face_human", "move_to_observation_point", "scan_environment" >>)
  @@ ("pretask_scan_pick_area" :> << "face_human", "scan_pick_zone" >>)
  @@ ("pretask_scan_floor_area" :> << "tilt_sensors_down", "scan_floor" >>)
  @@ ("pretask_scan_book_area" :> << "scan_shelves_for_book" >>)

\* BehaviorExecution.run sleeps BEHAVIOR_STEP_SECONDS = 0.7 s in increments of
\* tick = 0.05 s (14 rounds of its loop); the model counts StepSleeps rounds per step
BEHAVIOR_STEP_SECONDS == StepSleeps
SleepTick == 1

(***************************************************************************)
(* Sequence helpers                                                        *)
(***************************************************************************)
Min(a, b) == IF a < b THEN a ELSE b
Max(a, b) == IF a > b THEN a ELSE b

\* Python s[-n:] for 1 <= n
LastN(s, n) == IF n >= Len(s) THEN s ELSE SubSeq(s, Len(s) - n + 1, Len(s))

\* Python s[:k]
Prefix(s, k) == SubSeq(s, 1, k)

RECURSIVE Join(_)
Join(pref) ==
  IF Len(pref) = 0 THEN ""
  ELSE IF Len(pref) = 1 THEN pref[1]
  ELSE pref[1] \o "_" \o Join(Tail(pref))

(***************************************************************************)
(* ontologies/perception_ontology.py                                       *)
(***************************************************************************)
PoseStatement(label, t) == [label |-> label, start_time |-> t, end_time |-> t]

duration(seg) == Max(0, seg.end_time - seg.start_time)

\* faulty variant: the end is set to the new timestamp without the comparison
extend_to_Always(seg, new_end_time) == [seg EXCEPT !.end_time = new_end_time]

extend_to(seg, new_end_time) ==
  IF new_end_time > seg.end_time THEN [seg EXCEPT !.end_time = new_end_time] ELSE seg

(***************************************************************************)
(* ontologies/memory_storage.py                                            *)
(***************************************************************************)
EpisodeMemory ==
  [pose_segments |-> << >>, recognized_actions |-> << >>, executed_tasks |-> << >>]

\* faulty variant: only the segment buffer is emptied
clear_SegmentsOnly(mem) == [mem EXCEPT !.pose_segments = << >>]

clear(mem) ==
  [pose_segments |-> << >>, recognized_actions |-> << >>, executed_tasks |-> << >>]

pose_label_sequence(mem) ==
  [i \in 1..Len(mem.pose_segments) |-> mem.pose_segments[i].label]

\* MultiHumanMemoryStore.get: the store after the lazy insert
StoreGet(store, human_id) ==
  IF human_id \in DOMAIN store THEN store
  ELSE [h \in DOMAIN store \cup {human_id} |->
          IF h = human_id THEN EpisodeMemory ELSE store[h]]

\* faulty variant: the actor's entry is removed from the store
clear_human_Delete(store, human_id) ==
  [h \in DOMAIN store \ {human_id} |-> store[h]]

\* faulty variant: every actor's memory is cleared
clear_human_All(store, human_id) ==
  [h \in DOMAIN store \cup {human_id} |-> clear(EpisodeMemory)]

clear_human(store, human_id) ==
  [StoreGet(store, human_id) EXCEPT ![human_id] = clear(@)]

(***************************************************************************)
(* ontologies/human_action_ontology.py                                     *)
(***************************************************************************)
StepConstraint(pose, cdict) ==
  [pose |-> pose, min_duration |-> cdict.min_duration,
   max_duration |-> cdict.max_duration,
   max_gap_after_prev |-> cdict.max_gap_after_prev]

\* one action's `converted` list: None for a template beyond the raw list; zip pairs
\* the template's labels with the raw entries
ConvertConstraints(sequences, raw) ==
  [k \in 1..Len(sequences) |->
     IF k > Len(raw) THEN None
     ELSE Some([i \in 1..Min(Len(sequences[k]), Len(raw[k])) |->
                  StepConstraint(sequences[k][i], raw[k][i])])]

\* faulty variant: only a list shorter than its template raises
ConstraintLengthMismatch_ShorterOnly(sequences, raw) ==
  \E k \in 1..Min(Len(sequences), Len(raw)) : Len(raw[k]) < Len(sequences[k])

\* the ValueError of build_action_definitions
ConstraintLengthMismatch(sequences, raw) ==
  \E k \in 1..Min(Len(sequences), Len(raw)) : Len(raw[k]) # Len(sequences[k])

\* [ok |-> FALSE] stands for the raised ValueError
build_action_definitions(names, action_def_dict, step_constraints_dict) ==
  IF \E i \in 1..Len(names) :
        /\ names[i] \in DOMAIN step_constraints_dict
        /\ ConstraintLengthMismatch(action_def_dict[names[i]],
                                    step_constraints_dict[names[i]])
  THEN [ok |-> FALSE, defs |-> << >>]
  ELSE [ok |-> TRUE,
        defs |-> [i \in 1..Len(names) |->
           [name |-> names[i],
            sequences |-> action_def_dict[names[i]],
            step_constraints |->
              IF names[i] \in DOMAIN step_constraints_dict
              THEN Some(ConvertConstraints(action_def_dict[names[i]],
                                           step_constraints_dict[names[i]]))
              ELSE None,
            action_constraint |-> None]]]

PrefixMembers(defs, pref) ==
  {defs[i].name : i \in
     {j \in 1..Len(defs) :
        \E k \in 1..Len(defs[j].sequences) :
           /\ Len(pref) <= Len(defs[j].sequences[k])
           /\ Prefix(defs[j].sequences[k], Len(pref)) = pref}}

AllPrefixes(defs) ==
  UNION {UNION {{Prefix(defs[i].sequences[k], n) : n \in 1..Len(defs[i].sequences[k])} :
                  k \in 1..Len(defs[i].sequences)} : i \in 1..Len(defs)}

FamilyId(pref) == "F_" \o Join(pref)

RECURSIVE SeqPrefixes(_)
SeqPrefixes(seqs) ==
  IF seqs = << >> THEN << >>
  ELSE [n \in 1..Len(Head(seqs)) |-> Prefix(Head(seqs), n)] \o SeqPrefixes(Tail(seqs))

\* the prefixes in the order the loops insert them into prefix_to_members
RECURSIVE PrefixOrder(_)
PrefixOrder(defs) ==
  IF defs = << >> THEN << >>
  ELSE SeqPrefixes(Head(defs).sequences) \o PrefixOrder(Tail(defs))

\* faulty variant: one family per qualifying prefix and member action
build_action_families_PerMember(defs, min_prefix_len, min_members, pretask_by_prefix) ==
  LET qual == {p \in AllPrefixes(defs) :
                 /\ Len(p) >= min_prefix_len
                 /\ Cardinality(PrefixMembers(defs, p)) >= min_members}
  IN {[family_id |-> FamilyId(fm[1]) \o "_" \o fm[2], prefix |-> fm[1],
       members |-> {fm[2]},
       pre_task |-> DictFind(pretask_by_prefix, fm[1])] :
        fm \in {x \in qual \X {defs[i].name : i \in 1..Len(defs)} :
                  x[2] \in PrefixMembers(defs, x[1])}}

\* the set of values of the returned dict: families[family_id] = ... is assigned in the
\* dict order of prefix_to_members, a later prefix of the same family_id replacing an
\* earlier one
build_action_families(defs, min_prefix_len, min_members, pretask_by_prefix) ==
  LET order == PrefixOrder(defs)
      first(p) == CHOOSE i \in 1..Len(order) :
                    order[i] = p /\ \A j \in 1..(i - 1) : order[j] # p
      qual == {p \in AllPrefixes(defs) :
                 /\ Len(p) >= min_prefix_len
                 /\ Cardinality(PrefixMembers(defs, p)) >= min_members}
      kept == {p \in qual :
                 \A q \in qual : FamilyId(q) = FamilyId(p) => first(q) <= first(p)}
  IN {[family_id |-> FamilyId(pref), prefix |-> pref,
       members |-> PrefixMembers(defs, pref),
       pre_task |-> DictFind(pretask_by_prefix, pref)] : pref \in kept}

\* main.py: built once at start-up
action_defs ==
  build_action_definitions(ActionNames, ACTION_DEFINITIONS, ACTION_STEP_CONSTRAINTS).defs

families == build_action_families(action_defs, 2, 2, FAMILY_PRETASK_BY_PREFIX)

FamilyById(fam_id) == CHOOSE f \in families : f.family_id = fam_id

(***************************************************************************)
(* procedures/procedure_p.py                                               *)
(***************************************************************************)
\* faulty variant: every tick appends a segment, equal label or not
ingest_pose_label_NoMerge(store, pose_label, human_id, t) ==
  LET st == StoreGet(store, human_id)
      app == Append(st[human_id].pose_segments, PoseStatement(pose_label, t))
  IN [store |->
        [st EXCEPT ![human_id].pose_segments =
           IF Len(app) > MAX_POSE_BUFFER_LEN
           THEN LastN(app, MAX_POSE_BUFFER_LEN) ELSE app],
      stmt |-> PoseStatement(pose_label, t)]

\* faulty variant: the truncation keeps the oldest MAX_POSE_BUFFER_LEN segments
ingest_pose_label_KeepOldest(store, pose_label, human_id, t) ==
  LET st == StoreGet(store, human_id)
      segs == st[human_id].pose_segments
      n == Len(segs)
  IN IF n > 0 /\ segs[n].label = pose_label
     THEN [store |-> [st EXCEPT ![human_id].pose_segments[n] = extend_to(segs[n], t)],
           stmt |-> extend_to(segs[n], t)]
     ELSE LET app == Append(segs, PoseStatement(pose_label, t))
          IN [store |->
                [st EXCEPT ![human_id].pose_segments =
                   IF Len(app) > MAX_POSE_BUFFER_LEN
                   THEN Prefix(app, MAX_POSE_BUFFER_LEN) ELSE app],
              stmt |-> PoseStatement(pose_label, t)]

\* [store, stmt]: the store after the call and the returned statement
ingest_pose_label(store, pose_label, human_id, t) ==
  LET st == StoreGet(store, human_id)
      segs == st[human_id].pose_segments
      n == Len(segs)
  IN IF n > 0 /\ segs[n].label = pose_label
     THEN [store |-> [st EXCEPT ![human_id].pose_segments[n] = extend_to(segs[n], t)],
           stmt |-> extend_to(segs[n], t)]
     ELSE LET app == Append(segs, PoseStatement(pose_label, t))
          IN [store |->
                [st EXCEPT ![human_id].pose_segments =
                   IF Len(app) > MAX_POSE_BUFFER_LEN
                   THEN LastN(app, MAX_POSE_BUFFER_LEN) ELSE app],
              stmt |-> PoseStatement(pose_label, t)]

(***************************************************************************)
(* procedures/procedure_a.py  (the memory is the actor's EpisodeMemory)    *)
(***************************************************************************)
check_step_constraints_NoGap(pose_segments, seq_len, step_constraints) ==
  IF step_constraints = None THEN TRUE
  ELSE LET cs == step_constraints[1]
           m == LastN(pose_segments, seq_len)
       IN /\ Len(cs) = Len(m)
          /\ \A i \in 1..Len(m) :
               /\ m[i].label = cs[i].pose
               /\ ~(cs[i].min_duration # NoneNum /\ duration(m[i]) < cs[i].min_duration)
               /\ ~(cs[i].max_duration # NoneNum /\ duration(m[i]) > cs[i].max_duration)

check_step_constraints(pose_segments, seq_len, step_constraints) ==
  IF step_constraints = None THEN TRUE
  ELSE LET cs == step_constraints[1]
           m == LastN(pose_segments, seq_len)
       IN /\ Len(cs) = Len(m)
          /\ \A i \in 1..Len(m) :
               /\ m[i].label = cs[i].pose
               /\ ~(cs[i].min_duration # NoneNum /\ duration(m[i]) < cs[i].min_duration)
               /\ ~(cs[i].max_duration # NoneNum /\ duration(m[i]) > cs[i].max_duration)
               /\ ~(/\ i > 1
                    /\ cs[i].max_gap_after_prev # NoneNum
                    /\ m[i].start_time - m[i - 1].end_time > cs[i].max_gap_after_prev)

\* [ok, start_t]
check_action_constraint(pose_segments, seq_len, action_constraint) ==
  LET m == LastN(pose_segments, seq_len)
      start_t == m[1].start_time
      total_dur == m[Len(m)].end_time - start_t
  IN IF action_constraint = None THEN [ok |-> TRUE, start_t |-> start_t]
     ELSE LET c == action_constraint[1]
          IN [ok |-> /\ ~(c.min_total_duration # NoneNum
                          /\ total_dur < c.min_total_duration)
                     /\ ~(c.max_total_duration # NoneNum
                          /\ total_dur > c.max_total_duration),
              start_t |-> start_t]

\* the step constraints detect_action selects for template seq_idx (1-based)
SelectedStepConstraints(adef, seq_idx) ==
  IF adef.step_constraints # None /\ seq_idx <= Len(adef.step_constraints[1])
  THEN adef.step_constraints[1][seq_idx]
  ELSE None

TemplateAccepted_ShorterOnly(mem, defs, ai, si) ==
  LET seq == defs[ai].sequences[si]
      n == Len(seq)
      labels == pose_label_sequence(mem)
  IN /\ n < Len(labels)
     /\ LastN(labels, n) = seq
     /\ check_step_constraints(mem.pose_segments, n,
                               SelectedStepConstraints(defs[ai], si))
     /\ check_action_constraint(mem.pose_segments, n, defs[ai].action_constraint).ok

\* the body of detect_action's inner loop reaches `inst = ActionInstance(...)`
TemplateAccepted(mem, defs, ai, si) ==
  LET seq == defs[ai].sequences[si]
      n == Len(seq)
      labels == pose_label_sequence(mem)
  IN /\ n <= Len(labels)
     /\ LastN(labels, n) = seq
     /\ check_step_constraints(mem.pose_segments, n,
                               SelectedStepConstraints(defs[ai], si))
     /\ check_action_constraint(mem.pose_segments, n, defs[ai].action_constraint).ok

FirstAccepted_Last(mem, defs) ==
  LET acc == {p \in UNION {{<< ai, si >> : si \in 1..Len(defs[ai].sequences)} :
                             ai \in 1..Len(defs)} :
                TemplateAccepted(mem, defs, p[1], p[2])}
  IN IF acc = {} THEN None
     ELSE Some(CHOOSE p \in acc :
                 \A q \in acc : q[1] < p[1] \/ (p[1] = q[1] /\ q[2] <= p[2]))

\* the first accepted (action, template) in iteration order, as an optional pair
FirstAccepted(mem, defs) ==
  LET acc == {p \in UNION {{<< ai, si >> : si \in 1..Len(defs[ai].sequences)} :
                             ai \in 1..Len(defs)} :
                TemplateAccepted(mem, defs, p[1], p[2])}
  IN IF acc = {} THEN None
     ELSE Some(CHOOSE p \in acc :
                 \A q \in acc : p[1] < q[1] \/ (p[1] = q[1] /\ p[2] <= q[2]))

\* [inst, mem]: the optional ActionInstance returned and the memory afterwards
detect_action(mem, now_t, defs) ==
  LET hit == FirstAccepted(mem, defs)
  IN IF hit = None THEN [inst |-> None, mem |-> mem]
     ELSE LET ai == hit[1][1]
              si == hit[1][2]
              seq == defs[ai].sequences[si]
              inst == [name |-> defs[ai].name,
                       matched_sequence |-> seq,
                       start_time |->
                         check_action_constraint(mem.pose_segments, Len(seq),
                                                 defs[ai].action_constraint).start_t,
                       end_time |-> now_t,
                       confidence |-> 1]
          IN [inst |-> Some(inst),
              mem |-> [mem EXCEPT !.recognized_actions = Append(@, inst)]]

\* faulty variant: a prefix matches when its last label is the last label
MatchingPrefixLens_LastLabel(labels, seq) ==
  SelectSeq([m \in 1..Len(seq) |-> m],
            LAMBDA m : m <= Len(labels) /\ labels[Len(labels)] = seq[m])

\* lengths m of the prefixes of seq that equal the last m labels, ascending
MatchingPrefixLens(labels, seq) ==
  SelectSeq([m \in 1..Len(seq) |-> m],
            LAMBDA m : m <= Len(labels) /\ LastN(labels, m) = Prefix(seq, m))

RECURSIVE ConcatAll(_)
ConcatAll(ss) == IF ss = << >> THEN << >> ELSE Head(ss) \o ConcatAll(Tail(ss))

\* the dict action name -> list of matching prefix lengths (absent: no entry)
compute_candidate_actions(mem, defs) ==
  LET labels == pose_label_sequence(mem)
      lens(i) == ConcatAll([k \in 1..Len(defs[i].sequences) |->
                              MatchingPrefixLens(labels, defs[i].sequences[k])])
      cand == {i \in 1..Len(defs) : lens(i) # << >>}
  IN [a \in {defs[i].name : i \in cand} |->
        lens(CHOOSE i \in cand : defs[i].name = a)]

\* families whose entire prefix equals the current label suffix
MatchingFamilies(mem, fams) ==
  LET labels == pose_label_sequence(mem)
  IN {f \in fams : /\ Len(f.prefix) <= Len(labels)
                   /\ LastN(labels, Len(f.prefix)) = f.prefix}

\* faulty variant: the best family is the matching family of the shortest prefix
compute_early_intent_Shortest(mem, defs, fams) ==
  LET mf == MatchingFamilies(mem, fams)
      shortest == {f \in mf : \A g \in mf : Len(g.prefix) >= Len(f.prefix)}
  IN [candidates |-> compute_candidate_actions(mem, defs),
      best_family_id |->
        IF mf = {} THEN None ELSE Some((CHOOSE f \in shortest : TRUE).family_id),
      best_prefix_len |->
        IF mf = {} THEN 0 ELSE Len((CHOOSE f \in shortest : TRUE).prefix)]

\* compute_early_intent: the intent's candidates, best family and its length
compute_early_intent(mem, defs, fams) ==
  LET mf == MatchingFamilies(mem, fams)
      longest == {f \in mf : \A g \in mf : Len(g.prefix) <= Len(f.prefix)}
  IN [candidates |-> compute_candidate_actions(mem, defs),
      best_family_id |->
        IF mf = {} THEN None ELSE Some((CHOOSE f \in longest : TRUE).family_id),
      best_prefix_len |->
        IF mf = {} THEN 0 ELSE Len((CHOOSE f \in longest : TRUE).prefix)]

(***************************************************************************)
(* State                                                                   *)
(***************************************************************************)
VARIABLES
  \* EventScheduler
  queue, _event_counter, _cycle_id, procedures_by_event,
  \* the scheduler thread: where it is in main / run_until_idle / _dispatch
  pc, cur, pi, processed, max_events, ret,
  \* EventScheduler.state (blackboard) and UpperOntologyState
  mode, last_best_family_id, tick_action_recognized, hflag,
  \* MultiHumanMemoryStore.by_human and ProcedureS.human_states
  by_human, human_states,
  \* ProcedureR
  current_prepared_family_id, _pretask_thread, _pretask_stop_event,
  token_set, threads, th, caller,
  \* SpotRobotSim.execute_task of the final task, on the scheduler thread
  ftask, fstep, fremaining,
  \* the pose stream: ticks emitted, ticks emitted since the last drain, feed plan
  ticks, batch, feed,
  \* the buffer exercise: same-label ticks and resets so far
  repeats, resets,
  \* history: events dispatched before the current run_until_idle call, the segments
  \* appended to each actor's buffer since its last reset, the last buffer operation
  callBase, appended, lastOp,
  \* build_action_definitions applied to arguments: the arguments and the outcome
  build_args, build_out,
  \* ProcedureA.action_defs, and the last detect_action call with its outcome
  pa_defs, det_out,
  \* one label sequence fed once per label and fed k times per label, side by side
  runs,
  \* ProcedureR.pretasks and config.ACTION_TO_TASK
  pretasks, action_to_task,
  \* history: last procedure considered, a join that timed out, instances created
  lastRun, joinTimedOut, instLog

schedVars == << queue, _event_counter, _cycle_id, procedures_by_event >>
ctlVars == << pc, cur, pi, processed, max_events, ret >>
stateVars == << mode, last_best_family_id, tick_action_recognized, hflag >>
memVars == << by_human, human_states >>
prVars == << current_prepared_family_id, _pretask_thread, _pretask_stop_event,
             token_set, threads, th, caller >>
execVars == << ftask, fstep, fremaining >>
caseVars == << build_args, build_out, pa_defs, det_out, runs, pretasks, action_to_task >>
planVars == << feed, repeats, resets, callBase, appended, lastOp, caseVars >>
envVars == << ticks, batch, planVars >>
ghostVars == << lastRun, joinTimedOut, instLog >>

vars == << schedVars, ctlVars, stateVars, memVars, prVars, execVars, envVars,
           ghostVars >>

(***************************************************************************)
(* ontologies/upper_ontology.py and scheduler.py                           *)
(***************************************************************************)
RECOGNIZING == "recognizing"
EXECUTING_TASK == "executing_task"

\* RuntimeEvent; seq is the value of _event_counter at emit (the trace's seq)
RuntimeEvent(name, human_id, t) ==
  [name |-> name, human_id |-> human_id, t |-> t, seq |-> 0,
   pose_label |-> "", pose_stmt |-> None, family_id |-> "", action_inst |-> None,
   task_name |-> "", arg |-> 0]

NoEvent == RuntimeEvent("", "", 0)

Condition(name, check) == [name |-> name, check |-> check]

\* Condition.check(scheduler, event), by the name of the predicate function
CondHolds(check, s_mode, s_flag, event) ==
  CASE check = "is_recognizing" -> s_mode = RECOGNIZING
    [] check = "flag_is_set" -> s_flag
    [] check = "arg_is_one" -> event.arg = 1

\* {c.name: c for c in conditions}: a later entry replaces an earlier one of its name
CondMap(conditions) ==
  [n \in {conditions[i].name : i \in 1..Len(conditions)} |->
     conditions[CHOOSE i \in 1..Len(conditions) :
                  /\ conditions[i].name = n
                  /\ \A j \in 1..Len(conditions) : conditions[j].name = n => j <= i].check]

\* `supplied` remembers the list passed in; the Procedure object keeps the map
make_procedure(name, conditions) ==
  [name |-> name, conditions |-> CondMap(conditions), supplied |-> conditions]

can_run(proc, s_mode, s_flag, event) ==
  \A n \in DOMAIN proc.conditions : CondHolds(proc.conditions[n], s_mode, s_flag, event)

\* every condition in the list given to make_procedure holds
SuppliedHold(proc, s_mode, s_flag, event) ==
  \A i \in 1..Len(proc.supplied) : CondHolds(proc.supplied[i].check, s_mode, s_flag, event)

\* faulty variant: the event is put at the head of the queue (appendleft)
emit_AppendLeft(s, ev) ==
  [queue |-> << [ev EXCEPT !.seq = s.counter + 1] >> \o s.queue,
   counter |-> s.counter + 1,
   cycle |-> IF ev.name = "PoseTick" THEN s.cycle + 1 ELSE s.cycle]

\* EventScheduler.emit on s = [queue, counter, cycle]
emit(s, ev) ==
  [queue |-> Append(s.queue, [ev EXCEPT !.seq = s.counter + 1]),
   counter |-> s.counter + 1,
   cycle |-> IF ev.name = "PoseTick" THEN s.cycle + 1 ELSE s.cycle]

Sched == [queue |-> queue, counter |-> _event_counter, cycle |-> _cycle_id]

SetSched(s) ==
  /\ queue' = s.queue
  /\ _event_counter' = s.counter
  /\ _cycle_id' = s.cycle
  /\ UNCHANGED procedures_by_event

\* self.procedures_by_event.get(event.name, [])
ProcsFor(name) ==
  IF name \in DOMAIN procedures_by_event THEN procedures_by_event[name] ELSE << >>

\* faulty variant: the loop runs until the queue is empty, whatever max_events is
LoopContinues_NoLimit(q, n, m) == q # << >>

\* the loop condition of run_until_idle
LoopContinues(q, n, m) == q # << >> /\ n < m

(***************************************************************************)
(* main.py: conditions and registrations                                   *)
(***************************************************************************)
cond_recognizing == Condition("mode_is_recognizing", "is_recognizing")

\* the registrations of main(), with the conditions given for DispatchTask
RegistrationsWith(dispatch_conditions) ==
  [n \in {"PoseTick", "PoseSegmentUpdated", "BestFamilyChanged", "ActionRecognized",
          "TaskCompleted"} |->
     CASE n = "PoseTick" ->
            << make_procedure("ResetTickFlags", << >>),
               make_procedure("PerceptionToPoseSegment", << >>) >>
       [] n = "PoseSegmentUpdated" ->
            << make_procedure("UpdateHumanState", << >>),
               make_procedure("DetectAction", << cond_recognizing >>),
               make_procedure("ComputeEarlyIntent", << cond_recognizing >>) >>
       [] n = "BestFamilyChanged" ->
            << make_procedure("PrepareFamilyPretask", << cond_recognizing >>) >>
       [] n = "ActionRecognized" ->
            << make_procedure("DispatchTask", dispatch_conditions) >>
       [] n = "TaskCompleted" ->
            << make_procedure("OnTaskCompleted", << >>) >>]

\* faulty variant: DispatchTask registered without the recognizing condition
MainRegistrations_UnguardedDispatch == RegistrationsWith(<< >>)

\* faulty variant: ComputeEarlyIntent registered before DetectAction
MainRegistrations_IntentFirst ==
  [RegistrationsWith(<< cond_recognizing >>)
     EXCEPT !["PoseSegmentUpdated"] = << @[1], @[3], @[2] >>]

MainRegistrations == RegistrationsWith(<< cond_recognizing >>)

NoRun ==
  [seq |-> 0, event |-> "", idx |-> 0, name |-> "", ran |-> FALSE,
   supplied_ok |-> FALSE, mode |-> RECOGNIZING]

NoFeed == [action |-> 0, template |-> 0, pos |-> 0, rep |-> 0]

NoOp == [kind |-> "", human_id |-> "", label |-> "", t |-> 0]

InitCommon ==
  /\ queue = << >>
  /\ _event_counter = 0
  /\ _cycle_id = 0
  /\ pc = "idle"
  /\ cur = NoEvent
  /\ pi = 0
  /\ processed = 0
  /\ max_events = 0
  /\ ret = None
  /\ mode = RECOGNIZING
  /\ last_best_family_id = << >>
  /\ tick_action_recognized = << >>
  /\ hflag = FALSE
  /\ by_human = << >>
  /\ human_states = << >>
  /\ current_prepared_family_id = None
  /\ _pretask_thread = None
  /\ _pretask_stop_event = 0
  /\ token_set = {}
  /\ threads = << >>
  /\ th = None
  /\ caller = ""
  /\ ftask = ""
  /\ fstep = 0
  /\ fremaining = 0
  /\ ticks = 0
  /\ batch = 0
  /\ lastRun = NoRun
  /\ joinTimedOut = FALSE
  /\ instLog = << >>
  /\ repeats = 0
  /\ resets = 0
  /\ callBase = 0
  /\ appended = << >>
  /\ lastOp = NoOp
  /\ build_out = None
  /\ det_out = None

\* the configuration of config.py, and no arguments of a separate exercise
InitConfig ==
  /\ build_args = None
  /\ runs = None
  /\ pa_defs = action_defs
  /\ pretasks = PRETASK_DEFINITIONS
  /\ action_to_task = ACTION_TO_TASK

Init ==
  /\ InitCommon
  /\ InitConfig
  /\ procedures_by_event = MainRegistrations
  /\ feed = NoFeed

(***************************************************************************)
(* scheduler.py: run_until_idle and _dispatch                              *)
(***************************************************************************)
CurProcs == ProcsFor(cur.name)

\* the for loop of _dispatch is at procedure pi, named `name`, and it can run
ProcReady(name) ==
  /\ pc = "procs"
  /\ pi <= Len(CurProcs)
  /\ CurProcs[pi].name = name
  /\ can_run(CurProcs[pi], mode, hflag, cur)

LogRun(ran) ==
  lastRun' = [seq |-> cur.seq, event |-> cur.name, idx |-> pi,
              name |-> CurProcs[pi].name, ran |-> ran,
              supplied_ok |-> SuppliedHold(CurProcs[pi], mode, hflag, cur),
              mode |-> mode]

\* the procedure returns to the for loop of _dispatch
ProcReturn == pc' = "procs" /\ pi' = pi + 1

CtlReturn ==
  /\ ProcReturn
  /\ UNCHANGED << cur, processed, max_events, ret >>

\* run_until_idle(m) is called by the thread that owns the scheduler
RunUntilIdleCall(m) ==
  /\ pc = "idle"
  /\ pc' = "loop"
  /\ processed' = 0
  /\ max_events' = m
  /\ ret' = None
  /\ callBase' = _event_counter - Len(queue)
  /\ UNCHANGED << cur, pi >>

\* event = self.queue.popleft(); processed += 1; self._dispatch(event)
LoopPop ==
  /\ pc = "loop"
  /\ LoopContinues(queue, processed, max_events)
  /\ cur' = Head(queue)
  /\ queue' = Tail(queue)
  /\ processed' = processed + 1
  /\ pi' = 1
  /\ pc' = "procs"
  /\ UNCHANGED << _event_counter, _cycle_id, procedures_by_event, max_events, ret,
                  stateVars, memVars, prVars, execVars, envVars, ghostVars >>

\* return processed
LoopExit ==
  /\ pc = "loop"
  /\ ~LoopContinues(queue, processed, max_events)
  /\ pc' = "idle"
  /\ ret' = Some(processed)
  /\ UNCHANGED << cur, pi, processed, max_events, schedVars, stateVars, memVars,
                  prVars, execVars, envVars, ghostVars >>

\* the for loop of _dispatch is exhausted
ProcsDone ==
  /\ pc = "procs"
  /\ pi > Len(CurProcs)
  /\ pc' = "loop"
  /\ UNCHANGED << cur, pi, processed, max_events, ret, schedVars, stateVars, memVars,
                  prVars, execVars, envVars, ghostVars >>

\* proc.can_run(...) is false: the procedure is skipped
ProcSkip ==
  /\ pc = "procs"
  /\ pi <= Len(CurProcs)
  /\ ~can_run(CurProcs[pi], mode, hflag, cur)
  /\ LogRun(FALSE)
  /\ CtlReturn
  /\ UNCHANGED << schedVars, stateVars, memVars, prVars, execVars, envVars,
                  joinTimedOut, instLog >>

(***************************************************************************)
(* main.py: the procedures                                                 *)
(***************************************************************************)
proc_reset_tick ==
  /\ ProcReady("ResetTickFlags")
  /\ tick_action_recognized' = DictSet(tick_action_recognized, cur.human_id, FALSE)
  /\ LogRun(TRUE)
  /\ CtlReturn
  /\ UNCHANGED << schedVars, mode, last_best_family_id, hflag, memVars, prVars,
                  execVars, envVars, joinTimedOut, instLog >>

proc_perception_to_pose ==
  /\ ProcReady("PerceptionToPoseSegment")
  /\ LET r == ingest_pose_label(by_human, cur.pose_label, cur.human_id, cur.t)
     IN /\ by_human' = r.store
        /\ SetSched(emit(Sched,
             [RuntimeEvent("PoseSegmentUpdated", cur.human_id, cur.t)
                EXCEPT !.pose_stmt = Some(r.stmt)]))
  /\ LogRun(TRUE)
  /\ CtlReturn
  /\ UNCHANGED << stateVars, human_states, prVars, execVars, envVars, joinTimedOut,
                  instLog >>

\* the payload's pose_stmt is the buffer's own segment object: its end_time is the
\* segment's current one while the segment is still in the actor's buffer
LiveStmt(store, human_id, stmt) ==
  LET segs == IF human_id \in DOMAIN store THEN store[human_id].pose_segments
              ELSE << >>
      same == {i \in 1..Len(segs) : /\ segs[i].label = stmt.label
                                    /\ segs[i].start_time = stmt.start_time}
  IN IF same = {} THEN stmt ELSE segs[CHOOSE i \in same : TRUE]

proc_update_human_state ==
  /\ ProcReady("UpdateHumanState")
  /\ LET stmt == LiveStmt(by_human, cur.human_id, cur.pose_stmt[1])
     IN human_states' = DictSet(human_states, cur.human_id,
          [current_pose |-> stmt.label, last_update_time |-> stmt.end_time])
  /\ SetSched(emit(Sched, RuntimeEvent("HumanStateUpdated", cur.human_id, cur.t)))
  /\ LogRun(TRUE)
  /\ CtlReturn
  /\ UNCHANGED << stateVars, by_human, prVars, execVars, envVars, joinTimedOut,
                  instLog >>

proc_detect_action ==
  /\ ProcReady("DetectAction")
  /\ LET st == StoreGet(by_human, cur.human_id)
         r == detect_action(st[cur.human_id], cur.t, action_defs)
     IN /\ by_human' = [st EXCEPT ![cur.human_id] = r.mem]
        /\ IF r.inst # None
           THEN /\ tick_action_recognized' =
                     DictSet(tick_action_recognized, cur.human_id, TRUE)
                /\ SetSched(emit(Sched,
                     [RuntimeEvent("ActionRecognized", cur.human_id, cur.t)
                        EXCEPT !.action_inst = r.inst]))
                /\ instLog' = Append(instLog, r.inst[1])
           ELSE UNCHANGED << tick_action_recognized, schedVars, instLog >>
  /\ LogRun(TRUE)
  /\ CtlReturn
  /\ UNCHANGED << mode, last_best_family_id, hflag, human_states, prVars, execVars,
                  envVars, joinTimedOut >>

\* faulty variant: a tick without a best family resets the last-best-family record
proc_early_intent_ResetOnNone ==
  /\ ProcReady("ComputeEarlyIntent")
  /\ IF DictGet(tick_action_recognized, cur.human_id, FALSE)
     THEN UNCHANGED << schedVars, last_best_family_id, by_human >>
     ELSE LET st == StoreGet(by_human, cur.human_id)
              intent == compute_early_intent(st[cur.human_id], action_defs, families)
              best == intent.best_family_id
              last == DictGet(last_best_family_id, cur.human_id, None)
              s1 == emit(Sched, RuntimeEvent("EarlyIntentUpdated", cur.human_id, cur.t))
          IN /\ by_human' = st
             /\ IF best # None /\ best # last
                THEN /\ last_best_family_id' =
                          DictSet(last_best_family_id, cur.human_id, best)
                     /\ SetSched(emit(s1,
                          [RuntimeEvent("BestFamilyChanged", cur.human_id, cur.t)
                             EXCEPT !.family_id = best[1]]))
                ELSE /\ SetSched(s1)
                     /\ last_best_family_id' =
                          IF best = None
                          THEN DictSet(last_best_family_id, cur.human_id, None)
                          ELSE last_best_family_id
  /\ LogRun(TRUE)
  /\ CtlReturn
  /\ UNCHANGED << mode, tick_action_recognized, hflag, human_states, prVars, execVars,
                  envVars, joinTimedOut, instLog >>

proc_early_intent ==
  /\ ProcReady("ComputeEarlyIntent")
  /\ IF DictGet(tick_action_recognized, cur.human_id, FALSE)
     THEN UNCHANGED << schedVars, last_best_family_id, by_human >>
     ELSE LET st == StoreGet(by_human, cur.human_id)
              intent == compute_early_intent(st[cur.human_id], action_defs, families)
              best == intent.best_family_id
              last == DictGet(last_best_family_id, cur.human_id, None)
              s1 == emit(Sched, RuntimeEvent("EarlyIntentUpdated", cur.human_id, cur.t))
          IN /\ by_human' = st
             /\ IF best # None /\ best # last
                THEN /\ last_best_family_id' =
                          DictSet(last_best_family_id, cur.human_id, best)
                     /\ SetSched(emit(s1,
                          [RuntimeEvent("BestFamilyChanged", cur.human_id, cur.t)
                             EXCEPT !.family_id = best[1]]))
                ELSE /\ SetSched(s1)
                     /\ UNCHANGED last_best_family_id
  /\ LogRun(TRUE)
  /\ CtlReturn
  /\ UNCHANGED << mode, tick_action_recognized, hflag, human_states, prVars, execVars,
                  envVars, joinTimedOut, instLog >>

\* faulty variant: the handler resets the episode but does not unfreeze
proc_on_task_completed_NoUnfreeze ==
  /\ ProcReady("OnTaskCompleted")
  /\ by_human' = clear_human(by_human, cur.human_id)
  /\ last_best_family_id' = DictSet(last_best_family_id, cur.human_id, None)
  /\ LogRun(TRUE)
  /\ CtlReturn
  /\ UNCHANGED << schedVars, mode, tick_action_recognized, hflag, human_states, prVars,
                  execVars, envVars, joinTimedOut, instLog >>

proc_on_task_completed ==
  /\ ProcReady("OnTaskCompleted")
  /\ by_human' = clear_human(by_human, cur.human_id)
  /\ mode' = RECOGNIZING
  /\ last_best_family_id' = DictSet(last_best_family_id, cur.human_id, None)
  /\ LogRun(TRUE)
  /\ CtlReturn
  /\ UNCHANGED << schedVars, tick_action_recognized, hflag, human_states, prVars,
                  execVars, envVars, joinTimedOut, instLog >>

(***************************************************************************)
(* procedures/procedure_r.py, robot/robot_interface.py, robot/behaviors.py *)
(***************************************************************************)
is_alive(tid) == threads[tid].pc # "done"

\* BehaviorExecution.run is past its start and has not returned
Executing(tid) == threads[tid].pc = "sleep"

FinalExecuting == pc = "exec_step"

\* where cancel_pretask returns to
AfterCancel(who) == IF who = "dispatch" THEN "d_resolve" ELSE "p_start"

\* cancel_pretask, first locked block: no thread -> return; else set the stop event
CancelBegin(who) ==
  /\ caller' = who
  /\ th' = _pretask_thread
  /\ IF _pretask_thread = None
     THEN pc' = AfterCancel(who) /\ UNCHANGED token_set
     ELSE pc' = "c_join" /\ token_set' = token_set \cup {_pretask_stop_event}
  /\ UNCHANGED << current_prepared_family_id, _pretask_thread, _pretask_stop_event,
                  threads >>

\* `if join and th.is_alive(): th.join(timeout=5.0)`: the thread is or becomes dead
JoinThreadExited ==
  /\ pc = "c_join"
  /\ ~is_alive(th[1])
  /\ pc' = "c_cleanup"
  /\ UNCHANGED << cur, pi, processed, max_events, ret, schedVars, stateVars, memVars,
                  prVars, execVars, envVars, ghostVars >>

\* faulty variant: a join without timeout never returns while the thread is alive
JoinTimeout_Never ==
  /\ pc = "c_join"
  /\ is_alive(th[1])
  /\ FALSE
  /\ UNCHANGED vars

\* th.join(timeout=5.0) returns with the thread still alive
JoinTimeout ==
  /\ pc = "c_join"
  /\ is_alive(th[1])
  /\ pc' = "c_cleanup"
  /\ joinTimedOut' = TRUE
  /\ UNCHANGED << cur, pi, processed, max_events, ret, schedVars, stateVars, memVars,
                  prVars, execVars, envVars, lastRun, instLog >>

\* cancel_pretask, second locked block
CancelCleanup ==
  /\ pc = "c_cleanup"
  /\ _pretask_thread' =
       IF _pretask_thread # None /\ ~is_alive(_pretask_thread[1])
       THEN None ELSE _pretask_thread
  /\ pc' = AfterCancel(caller)
  /\ UNCHANGED << cur, pi, processed, max_events, ret, schedVars, stateVars, memVars,
                  current_prepared_family_id, _pretask_stop_event, token_set, threads,
                  th, caller, execVars, envVars, ghostVars >>

\* faulty variant: a family without pretask is not passed over
proc_prepare_family_NoPretaskTest ==
  /\ ProcReady("PrepareFamilyPretask")
  /\ LET fam == FamilyById(cur.family_id)
     IN IF current_prepared_family_id = Some(fam.family_id)
        THEN ProcReturn /\ UNCHANGED prVars
        ELSE CancelBegin("prepare") /\ UNCHANGED pi
  /\ LogRun(TRUE)
  /\ UNCHANGED << cur, processed, max_events, ret, schedVars, stateVars, memVars,
                  execVars, envVars, joinTimedOut, instLog >>

\* proc_prepare_family up to the end of cancel_pretask's first block
proc_prepare_family ==
  /\ ProcReady("PrepareFamilyPretask")
  /\ LET fam == FamilyById(cur.family_id)
     IN IF fam.pre_task = None \/ current_prepared_family_id = Some(fam.family_id)
        THEN ProcReturn /\ UNCHANGED prVars
        ELSE CancelBegin("prepare") /\ UNCHANGED pi
  /\ LogRun(TRUE)
  /\ UNCHANGED << cur, processed, max_events, ret, schedVars, stateVars, memVars,
                  execVars, envVars, joinTimedOut, instLog >>

\* prepare_family after cancel_pretask: look the pretask up and start the thread
PrepareStart ==
  /\ pc = "p_start"
  /\ LET fam == FamilyById(cur.family_id)
         tid == Len(threads) + 1
     IN IF DictFind(pretasks, fam.pre_task[1]) = None
        THEN /\ current_prepared_family_id' = Some(fam.family_id)
             /\ UNCHANGED << _pretask_thread, _pretask_stop_event, threads >>
        ELSE /\ tid <= MaxThreads
             /\ _pretask_stop_event' = tid
             /\ current_prepared_family_id' = Some(fam.family_id)
             /\ threads' = Append(threads,
                  [pc |-> "start", task |-> fam.pre_task[1], step |-> 1,
                   remaining |-> 0, token |-> None])
             /\ _pretask_thread' = Some(tid)
  /\ ProcReturn
  /\ UNCHANGED << cur, processed, max_events, ret, schedVars, stateVars, memVars,
                  token_set, th, caller, execVars, envVars, ghostVars >>

\* proc_dispatch_task: freeze_for_task, then dispatch up to the end of
\* cancel_pretask's first block
proc_dispatch_task ==
  /\ ProcReady("DispatchTask")
  /\ mode' = EXECUTING_TASK
  /\ CancelBegin("dispatch")
  /\ LogRun(TRUE)
  /\ UNCHANGED << cur, pi, processed, max_events, ret, schedVars, last_best_family_id,
                  tick_action_recognized, hflag, memVars, execVars, envVars,
                  joinTimedOut, instLog >>

\* faulty variant: an unmapped action is passed over and the procedure returns
DispatchResolve_Swallow ==
  /\ pc = "d_resolve"
  /\ current_prepared_family_id' = None
  /\ LET task_name == DictFind(action_to_task, cur.action_inst[1].name)
     IN IF task_name = None
        THEN ProcReturn /\ UNCHANGED execVars
        ELSE /\ pc' = "exec"
             /\ ftask' = task_name[1]
             /\ fstep' = 1
             /\ fremaining' = 0
             /\ UNCHANGED pi
  /\ UNCHANGED << cur, processed, max_events, ret, schedVars, stateVars, memVars,
                  _pretask_thread, _pretask_stop_event, token_set, threads, th, caller,
                  envVars, ghostVars >>

\* faulty variant: dispatch without clear_preparation
DispatchResolve_KeepMarker ==
  /\ pc = "d_resolve"
  /\ UNCHANGED current_prepared_family_id
  /\ LET task_name == DictFind(action_to_task, cur.action_inst[1].name)
     IN IF task_name = None
        THEN pc' = "raised" /\ UNCHANGED execVars
        ELSE /\ pc' = "exec"
             /\ ftask' = task_name[1]
             /\ fstep' = 1
             /\ fremaining' = 0
  /\ UNCHANGED << cur, pi, processed, max_events, ret, schedVars, stateVars, memVars,
                  _pretask_thread, _pretask_stop_event, token_set, threads, th, caller,
                  envVars, ghostVars >>

\* dispatch: clear_preparation, then resolve the task (ValueError if unmapped)
DispatchResolve ==
  /\ pc = "d_resolve"
  /\ current_prepared_family_id' = None
  /\ LET task_name == DictFind(action_to_task, cur.action_inst[1].name)
     IN IF task_name = None
        THEN pc' = "raised" /\ UNCHANGED execVars
        ELSE /\ pc' = "exec"
             /\ ftask' = task_name[1]
             /\ fstep' = 1
             /\ fremaining' = 0
  /\ UNCHANGED << cur, pi, processed, max_events, ret, schedVars, stateVars, memVars,
                  _pretask_thread, _pretask_stop_event, token_set, threads, th, caller,
                  envVars, ghostVars >>

\* execute_task without stop_event: the next step's BehaviorExecution.run starts
ExecStepBegin ==
  /\ pc = "exec"
  /\ fstep <= Len(TASK_DEFINITIONS[ftask])
  /\ pc' = "exec_step"
  /\ fremaining' = BEHAVIOR_STEP_SECONDS
  /\ UNCHANGED << cur, pi, processed, max_events, ret, schedVars, stateVars, memVars,
                  prVars, ftask, fstep, envVars, ghostVars >>

\* faulty variant: the final task is given the stop event and ends when it is set
ExecSleep_Cancellable ==
  /\ pc = "exec_step"
  /\ LET r == fremaining - Min(SleepTick, fremaining)
     IN IF _pretask_stop_event \in token_set
        THEN /\ fremaining' = 0
             /\ fstep' = Len(TASK_DEFINITIONS[ftask]) + 1
             /\ pc' = "exec"
        ELSE IF r > 0
        THEN fremaining' = r /\ UNCHANGED << pc, fstep >>
        ELSE fremaining' = 0 /\ fstep' = fstep + 1 /\ pc' = "exec"
  /\ UNCHANGED << cur, pi, processed, max_events, ret, schedVars, stateVars, memVars,
                  prVars, ftask, envVars, ghostVars >>

\* one time.sleep(dt) of the step; the step returns when nothing remains
ExecSleep ==
  /\ pc = "exec_step"
  /\ LET r == fremaining - Min(SleepTick, fremaining)
     IN IF r > 0
        THEN fremaining' = r /\ UNCHANGED << pc, fstep >>
        ELSE fremaining' = 0 /\ fstep' = fstep + 1 /\ pc' = "exec"
  /\ UNCHANGED << cur, pi, processed, max_events, ret, schedVars, stateVars, memVars,
                  prVars, ftask, envVars, ghostVars >>

\* dispatch returns the task name; proc_dispatch_task emits TaskCompleted
DispatchFinish ==
  /\ pc = "exec"
  /\ fstep > Len(TASK_DEFINITIONS[ftask])
  /\ by_human' = [StoreGet(by_human, cur.human_id) EXCEPT
                    ![cur.human_id].executed_tasks = Append(@, ftask)]
  /\ SetSched(emit(Sched, [RuntimeEvent("TaskCompleted", cur.human_id, cur.t)
                             EXCEPT !.task_name = ftask]))
  /\ CtlReturn
  /\ UNCHANGED << stateVars, human_states, prVars, execVars, envVars, ghostVars >>

WorkerUnchanged ==
  UNCHANGED << schedVars, ctlVars, stateVars, memVars, current_prepared_family_id,
               _pretask_thread, _pretask_stop_event, token_set, th, caller, execVars,
               envVars, ghostVars >>

TokenSet(tid) == threads[tid].token[1] \in token_set

\* _pretask_worker: the thread reads self._pretask_stop_event and enters execute_task
WorkerStart(tid) ==
  /\ threads[tid].pc = "start"
  /\ threads' = [threads EXCEPT ![tid].token = Some(_pretask_stop_event),
                                ![tid].pc = "loop"]
  /\ WorkerUnchanged

\* execute_task: next iteration of `for step in task.steps`
WorkerLoop(tid) ==
  /\ threads[tid].pc = "loop"
  /\ threads' = [threads EXCEPT ![tid].pc =
       IF threads[tid].step > Len(PRETASK_DEFINITIONS[threads[tid].task]) THEN "done"
       ELSE IF TokenSet(tid) THEN "done"
       ELSE "run"]
  /\ WorkerUnchanged

\* BehaviorExecution.run: the check before the step starts
WorkerRunCheck(tid) ==
  /\ threads[tid].pc = "run"
  /\ threads' = [threads EXCEPT ![tid].pc = IF TokenSet(tid) THEN "done" ELSE "begin"]
  /\ WorkerUnchanged

\* BehaviorExecution.run: the step starts
WorkerStepBegin(tid) ==
  /\ threads[tid].pc = "begin"
  /\ threads' = [threads EXCEPT ![tid].pc = "sleep",
                                ![tid].remaining = BEHAVIOR_STEP_SECONDS]
  /\ WorkerUnchanged

\* faulty variant: the sleep loop does not look at the stop event
WorkerSleep_NoCheck(tid) ==
  /\ threads[tid].pc = "sleep"
  /\ LET r == threads[tid].remaining - Min(SleepTick, threads[tid].remaining)
     IN threads' =
          IF r > 0 THEN [threads EXCEPT ![tid].remaining = r]
          ELSE [threads EXCEPT ![tid].remaining = 0, ![tid].step = @ + 1,
                               ![tid].pc = "loop"]
  /\ WorkerUnchanged

\* BehaviorExecution.run: one round of the sleep loop
WorkerSleep(tid) ==
  /\ threads[tid].pc = "sleep"
  /\ LET r == threads[tid].remaining - Min(SleepTick, threads[tid].remaining)
     IN threads' =
          IF TokenSet(tid) THEN [threads EXCEPT ![tid].pc = "done"]
          ELSE IF r > 0 THEN [threads EXCEPT ![tid].remaining = r]
          ELSE [threads EXCEPT ![tid].remaining = 0, ![tid].step = @ + 1,
                               ![tid].pc = "loop"]
  /\ WorkerUnchanged

Worker ==
  \E tid \in 1..Len(threads) :
     \/ WorkerStart(tid)
     \/ WorkerLoop(tid)
     \/ WorkerRunCheck(tid)
     \/ WorkerStepBegin(tid)
     \/ WorkerSleep(tid)

(***************************************************************************)
(* main.py: the tick loop                                                  *)
(***************************************************************************)
HumanIds == {"human_1"}

TickLabels == POSE_SET

\* sched.emit("PoseTick", ...) with the detector's next timestamp
EmitTick(human_id, pose_label) ==
  /\ ticks' = ticks + 1
  /\ batch' = batch + 1
  /\ SetSched(emit(Sched, [RuntimeEvent("PoseTick", human_id, ticks + 1)
                             EXCEPT !.pose_label = pose_label]))

EmitPoseTick ==
  /\ pc = "idle"
  /\ ticks < MaxTicks
  /\ batch < MaxBatch
  /\ \E human_id \in HumanIds, pose_label \in TickLabels : EmitTick(human_id, pose_label)
  /\ ret' = None
  /\ UNCHANGED << pc, cur, pi, processed, max_events, stateVars, memVars, prVars,
                  execVars, planVars, ghostVars >>

\* sched.run_until_idle(max_events=1000)
MainRunUntilIdle ==
  /\ batch > 0
  /\ RunUntilIdleCall(1000)
  /\ batch' = 0
  /\ UNCHANGED << schedVars, stateVars, memVars, prVars, execVars, ticks, feed, repeats,
                  resets, appended, lastOp, caseVars,
                  ghostVars >>

\* the steps of the scheduler thread in which no procedure is skipped
SchedulerSteps ==
  \/ MainRunUntilIdle
  \/ LoopPop
  \/ LoopExit
  \/ ProcsDone
  \/ proc_reset_tick
  \/ proc_perception_to_pose
  \/ proc_update_human_state
  \/ proc_detect_action
  \/ proc_early_intent
  \/ proc_prepare_family
  \/ JoinThreadExited
  \/ JoinTimeout
  \/ CancelCleanup
  \/ PrepareStart
  \/ proc_dispatch_task
  \/ DispatchResolve
  \/ ExecStepBegin
  \/ ExecSleep
  \/ DispatchFinish
  \/ proc_on_task_completed

SchedulerThread ==
  \/ SchedulerSteps
  \/ ProcSkip

Next ==
  \/ EmitPoseTick
  \/ SchedulerThread
  \/ Worker

Spec == Init /\ [][Next]_vars

\* the scheduler thread never stops of its own accord: the tick loop calls
\* run_until_idle after every emit, and a join returns after its timeout at the latest
FairSpec == Spec /\ WF_vars(SchedulerThread)

(***************************************************************************)
(* Properties of the coordinator and of the mode                           *)
(***************************************************************************)
StepsExecuting ==
  Cardinality({tid \in 1..Len(threads) : Executing(tid)})
    + (IF FinalExecuting THEN 1 ELSE 0)

\* C1: at any instant at most one behavior step, of a pretask or of the final task,
\* is executing on the robot
C1_OneStepAtATime == StepsExecuting <= 1

\* as long as no cancellation join has timed out, steps never overlap
ExclusiveUnlessJoinTimedOut == ~joinTimedOut => StepsExecuting <= 1

\* the first behavior step of the final task has begun and dispatch has not returned
FinalBegun == pc = "exec_step" \/ (pc = "exec" /\ fstep > 1)

\* the stop event thread tid observes (the current one if it has not read it yet)
RoutineToken(tid) ==
  IF threads[tid].token = None THEN _pretask_stop_event ELSE threads[tid].token[1]

CancelledBeforeFinal ==
  FinalBegun =>
    /\ current_prepared_family_id = None
    /\ th # None => RoutineToken(th[1]) \in token_set

NoPretaskStepStartsDuringFinal ==
  FinalBegun =>
    \A tid \in 1..Len(threads) :
       ~(threads[tid].pc = "begin" /\ threads'[tid].pc = "sleep")

\* C2: before the final task's first step begins dispatch has set the in-flight
\* routine's stop event, joined it and cleared the prepared-family marker, and no
\* pretask step starts once the final task's first step has begun
C2_CancelBeforeFinalTask ==
  [](CancelledBeforeFinal) /\ [][NoPretaskStepStartsDuringFinal]_vars

GuardedProcedures ==
  {"DetectAction", "ComputeEarlyIntent", "PrepareFamilyPretask", "DispatchTask"}

\* a procedure starts to run in this step
ProcedureStarts(name) ==
  lastRun' # lastRun /\ lastRun'.ran /\ lastRun'.name = name

\* C7: while the mode is EXECUTING_TASK no DetectAction, ComputeEarlyIntent,
\* PrepareFamilyPretask or DispatchTask procedure starts, no action instance is
\* created and no preparation thread is started
C7_FrozenWhileExecuting ==
  [][mode = EXECUTING_TASK =>
       /\ \A n \in GuardedProcedures : ~ProcedureStarts(n)
       /\ instLog' = instLog
       /\ Len(threads') = Len(threads)]_vars

\* a guarded procedure was skipped because the mode was EXECUTING_TASK
C7_Witness ==
  /\ mode = EXECUTING_TASK
  /\ lastRun.name \in GuardedProcedures
  /\ ~lastRun.ran

InDispatch ==
  /\ cur.name = "ActionRecognized"
  /\ pc \in {"c_join", "c_cleanup", "d_resolve", "exec", "exec_step"}

\* the TaskCompleted event of the running dispatch is queued or is being dispatched
\* and OnTaskCompleted has not run for it yet
CompletionPending ==
  \/ \E i \in 1..Len(queue) : queue[i].name = "TaskCompleted"
  \/ cur.name = "TaskCompleted" /\ pc = "procs" /\ pi = 1

ExecutingOnlyAroundDispatch == (mode = EXECUTING_TASK) <=> (InDispatch \/ CompletionPending)

ModeChangesOnlyByCoordinator ==
  mode' # mode =>
    \/ mode' = EXECUTING_TASK /\ ProcedureStarts("DispatchTask")
    \/ /\ mode' = RECOGNIZING
       /\ ProcedureStarts("OnTaskCompleted")
       /\ cur.name = "TaskCompleted"
       /\ cur.task_name = ftask

ActionPending ==
  \/ \E i \in 1..Len(queue) : queue[i].name = "ActionRecognized"
  \/ cur.name = "ActionRecognized" /\ pc # "loop" /\ pc # "idle"

\* the TaskCompleted handler has just run: the actor's episode is empty again
EpisodeReset ==
  /\ lastRun.name = "OnTaskCompleted"
  /\ mode = RECOGNIZING
  /\ \A h \in DOMAIN by_human : by_human[h] = EpisodeMemory

\* C8: a recognized action (all are mapped to tasks) leads to the completion of its
\* task, with the actor's episode memory empty and the mode RECOGNIZING; the mode is
\* EXECUTING_TASK exactly from DispatchTask's freeze to the handling of the matching
\* TaskCompleted event, and only those two change it
C8_TaskCompletes ==
  /\ [](ExecutingOnlyAroundDispatch)
  /\ [][ModeChangesOnlyByCoordinator]_vars
  /\ (ActionPending ~> EpisodeReset)

C8_Witness == EpisodeReset /\ Len(instLog) > 0


(***************************************************************************)
(* scheduler.py on its own: emit, register, run_until_idle, _dispatch      *)
(* driven by procedures that emit events and write the scheduler's state   *)
(***************************************************************************)
HarnessEvents == {"A", "B", "C"}

HarnessArgs == {0, 1}

\* register(...) calls: plain, one condition, two conditions, and two conditions
\* given the same name; no procedure is registered for "C"
HarnessRegistrations ==
  [n \in {"A", "B"} |->
     IF n = "A"
     THEN << make_procedure("h_plain", << >>),
             make_procedure("h_flag", << Condition("flag", "flag_is_set") >>),
             make_procedure("h_both", << Condition("flag", "flag_is_set"),
                                         Condition("arg", "arg_is_one") >>) >>
     ELSE << make_procedure("h_dup", << Condition("check", "flag_is_set"),
                                        Condition("check", "arg_is_one") >>),
             make_procedure("h_plain2", << >>) >>]

InitSched ==
  /\ InitCommon
  /\ InitConfig
  /\ procedures_by_event = HarnessRegistrations
  /\ feed = NoFeed

HarnessEvent(name, arg, t) == [RuntimeEvent(name, "", t) EXCEPT !.arg = arg]

\* sched.emit(name, payload, t) by the owner of the scheduler, between drains
HarnessEmit ==
  /\ pc = "idle"
  /\ _event_counter < MaxEmits
  /\ \E name \in HarnessEvents, arg \in HarnessArgs :
       SetSched(emit(Sched, HarnessEvent(name, arg, _event_counter + 1)))
  /\ ret' = None
  /\ UNCHANGED << pc, cur, pi, processed, max_events, stateVars, memVars, prVars,
                  execVars, envVars, ghostVars >>

\* sched.run_until_idle(max_events=m)
HarnessRunUntilIdle ==
  /\ \E m \in 0..MaxEventsArg : RunUntilIdleCall(m)
  /\ UNCHANGED << schedVars, stateVars, memVars, prVars, execVars, ticks, batch, feed,
                  repeats, resets, appended, lastOp, caseVars, ghostVars >>

\* the events a procedure body emits: none, one or two, with the event's own time
HarnessEmits ==
  {<< >>}
  \cup {<< HarnessEvent(n, a, cur.t) >> : n \in HarnessEvents, a \in HarnessArgs}
  \cup {<< HarnessEvent(n, 0, cur.t), HarnessEvent(m, 1, cur.t) >> :
          n \in HarnessEvents, m \in HarnessEvents}

RECURSIVE EmitAll(_, _)
EmitAll(sch, evs) ==
  IF evs = << >> THEN sch ELSE EmitAll(emit(sch, Head(evs)), Tail(evs))

\* proc.run(self, event): the body writes the scheduler's state and emits events
HarnessProcRun ==
  /\ pc = "procs"
  /\ pi <= Len(CurProcs)
  /\ can_run(CurProcs[pi], mode, hflag, cur)
  /\ \E f \in BOOLEAN, evs \in HarnessEmits :
       /\ _event_counter + Len(evs) <= MaxEmits
       /\ hflag' = f
       /\ SetSched(EmitAll(Sched, evs))
  /\ LogRun(TRUE)
  /\ CtlReturn
  /\ UNCHANGED << mode, last_best_family_id, tick_action_recognized, memVars, prVars,
                  execVars, envVars, joinTimedOut, instLog >>

SchedNext ==
  \/ HarnessEmit
  \/ HarnessRunUntilIdle
  \/ LoopPop
  \/ LoopExit
  \/ ProcsDone
  \/ ProcSkip
  \/ HarnessProcRun

SpecSched == InitSched /\ [][SchedNext]_vars

\* a call of run_until_idle runs on: nothing else holds the calling thread back
DrainStep == LoopPop \/ LoopExit \/ ProcsDone \/ ProcSkip \/ HarnessProcRun

FairSpecSched == SpecSched /\ WF_vars(DrainStep)

\* the queue holds the most recently emitted events, in the order of their emission
QueueInEmissionOrder ==
  \A i \in 1..Len(queue) : queue[i].seq = _event_counter - Len(queue) + i

\* the event dispatched last is the one emitted just before those still queued
DispatchInEmissionOrder == cur.seq = _event_counter - Len(queue)

\* the procedures of an event are taken one by one, and all of them before the next pop
EventResolvedBeforeNext ==
  /\ lastRun.seq <= cur.seq
  /\ pc = "procs" =>
       IF pi = 1 THEN lastRun.seq < cur.seq
       ELSE lastRun.seq = cur.seq /\ lastRun.idx = pi - 1
  /\ pc \in {"loop", "idle"} /\ cur.seq > 0 =>
       /\ pi > Len(CurProcs)
       /\ Len(CurProcs) > 0 => lastRun.seq = cur.seq /\ lastRun.idx = Len(CurProcs)

\* C4: run_until_idle dispatches events in the order of their emission; an event
\* emitted by a procedure goes to the tail of the queue, and none of its procedures
\* runs before every procedure of the current event and of the events queued earlier
C4_FifoDispatch ==
  /\ QueueInEmissionOrder
  /\ DispatchInEmissionOrder
  /\ EventResolvedBeforeNext

\* a procedure of the event being dispatched has emitted events behind one that was
\* queued before, and the dispatch of the current event goes on
C4_Witness ==
  /\ pc = "procs"
  /\ lastRun.ran /\ lastRun.seq = cur.seq
  /\ Len(queue) >= 2
  /\ queue[1].t # cur.t
  /\ queue[Len(queue)].t = cur.t

\* C5: a procedure considered at dispatch runs if and only if every condition
\* supplied for it holds at that moment, in registration order; a procedure without
\* conditions always runs
C5_RunsIffSuppliedConditionsHold ==
  lastRun.name # "" =>
    /\ lastRun.ran <=> lastRun.supplied_ok
    /\ lastRun.idx <= Len(ProcsFor(lastRun.event))
    /\ ProcsFor(lastRun.event)[lastRun.idx].name = lastRun.name

\* what the code guarantees: the conditions kept by make_procedure decide
RunsIffKeptConditionsHold ==
  [][lastRun' # lastRun => (lastRun'.ran <=> can_run(CurProcs[pi], mode, hflag, cur))]_vars

\* events dispatched since run_until_idle was called
DispatchedInCall == (_event_counter - Len(queue)) - callBase

Returned == pc = "idle" /\ ret # None

DrainWithinLimit ==
  /\ pc # "idle" => processed <= max_events /\ processed = DispatchedInCall
  /\ Returned =>
       /\ ret[1] = DispatchedInCall
       /\ ret[1] <= max_events
       /\ ret[1] < max_events => queue = << >>
       /\ QueueInEmissionOrder

\* C6: run_until_idle(max_events) returns after dispatching at most max_events
\* events and returns their number; what is not dispatched stays queued in order,
\* and a count below max_events means an empty queue
C6_BoundedDrain == [](DrainWithinLimit) /\ (pc # "idle" ~> Returned)

\* a call stopped at the limit with events left in the queue
C6_Witness == Returned /\ max_events > 0 /\ ret[1] = max_events /\ Len(queue) >= 2


(***************************************************************************)
(* main.py fed one template: a PoseTick and a drain per label, every label *)
(* of the template in order, one or more times                             *)
(***************************************************************************)
Templates ==
  UNION {{<< ai, si >> : si \in 1..Len(action_defs[ai].sequences)} :
           ai \in 1..Len(action_defs)}

FeedTemplate == action_defs[feed.action].sequences[feed.template]

InitTemplate ==
  /\ InitCommon
  /\ InitConfig
  /\ procedures_by_event = MainRegistrations
  /\ \E p \in Templates :
       feed = [action |-> p[1], template |-> p[2], pos |-> 1, rep |-> 0]

\* the next tick of the feed: the label at pos; the tick after it is of the same label
\* (feed.rep counts these extra ticks) or of the next one
FeedTick ==
  /\ pc = "idle"
  /\ batch = 0
  /\ queue = << >>
  /\ feed.pos <= Len(FeedTemplate)
  /\ EmitTick("human_1", FeedTemplate[feed.pos])
  /\ \E again \in BOOLEAN :
       /\ again => feed.rep < MaxExtraTicks
       /\ feed' = IF again THEN [feed EXCEPT !.rep = @ + 1]
                  ELSE [feed EXCEPT !.pos = @ + 1]
  /\ ret' = None
  /\ UNCHANGED << pc, cur, pi, processed, max_events, stateVars, memVars, prVars,
                  execVars, repeats, resets, callBase, appended, lastOp, caseVars,
                  ghostVars >>

\* with a drain after every tick no condition is false when it is evaluated
\* (EveryProcedureRunsInFeed), so that no step of the feed skips a procedure
TemplateNext ==
  \/ FeedTick
  \/ SchedulerSteps
  \/ Worker

SpecTemplate == InitTemplate /\ [][TemplateNext]_vars

\* every label was fed and drained
FeedDone ==
  /\ feed.action # 0
  /\ feed.pos > Len(FeedTemplate)
  /\ pc = "idle" /\ batch = 0 /\ queue = << >>

EveryProcedureRunsInFeed ==
  pc = "procs" /\ pi <= Len(CurProcs) => can_run(CurProcs[pi], mode, hflag, cur)

ExactlyOneInstanceOfOwner ==
  /\ Len(instLog) = 1
  /\ instLog[1].name = action_defs[feed.action].name

\* C3: feeding the labels of a template of a configured action, in order and each one
\* or more times, from an empty episode, yields exactly one ActionInstance, named
\* after the action that owns the template
C3_TemplateYieldsOwner == FeedDone => ExactlyOneInstanceOfOwner

\* what the code guarantees: the same for every template of which no other
\* action's template is a proper prefix
ShadowedTemplate ==
  \E p \in Templates :
    LET other == action_defs[p[1]].sequences[p[2]]
    IN /\ p[1] # feed.action
       /\ Len(other) < Len(FeedTemplate)
       /\ Prefix(FeedTemplate, Len(other)) = other

UnshadowedTemplateYieldsOwner ==
  FeedDone /\ ~ShadowedTemplate => ExactlyOneInstanceOfOwner

(***************************************************************************)
(* procedure_p.py and procedure_u.py on one actor's buffer: ticks of two   *)
(* labels, mostly alternating, and episode resets                          *)
(***************************************************************************)
BufLabels == {"sitting", "standing"}

BufHuman == "human_1"

InitBuf ==
  /\ InitCommon
  /\ InitConfig
  /\ procedures_by_event = MainRegistrations
  /\ feed = NoFeed

Segments(store, human_id) ==
  IF human_id \in DOMAIN store THEN store[human_id].pose_segments ELSE << >>

LastOf(s) == s[Len(s)]

\* P.ingest_pose_label(pose_label, human_id, t) at the next timestamp
BufIngest ==
  /\ ticks < MaxBufTicks
  /\ \E pose_label \in BufLabels :
       LET was == DictGet(appended, BufHuman, << >>)
           \* the tick repeats the label of the tick before it in this episode
           same == was # << >> /\ LastOf(was).label = pose_label
       IN /\ same => repeats < MaxSameLabel
          /\ repeats' = IF same THEN repeats + 1 ELSE repeats
          /\ by_human' = ingest_pose_label(by_human, pose_label, BufHuman, ticks + 1).store
          /\ appended' =
               IF same THEN DictSet(appended, BufHuman, was)
               ELSE DictSet(appended, BufHuman,
                            Append(was, [label |-> pose_label, start_time |-> ticks + 1]))
          /\ lastOp' = [kind |-> "ingest", human_id |-> BufHuman, label |-> pose_label,
                        t |-> ticks + 1]
  /\ ticks' = ticks + 1
  /\ UNCHANGED << schedVars, ctlVars, stateVars, human_states, prVars, execVars, batch,
                  feed, resets, callBase, caseVars, ghostVars >>

\* U.reset_episode(human_id)
BufReset ==
  /\ resets < MaxResets
  /\ by_human' = clear_human(by_human, BufHuman)
  /\ appended' = DictSet(appended, BufHuman, << >>)
  /\ lastOp' = [kind |-> "reset", human_id |-> BufHuman, label |-> "", t |-> ticks]
  /\ resets' = resets + 1
  /\ UNCHANGED << schedVars, ctlVars, stateVars, human_states, prVars, execVars, ticks,
                  batch, feed, repeats, callBase, caseVars, ghostVars >>

BufNext ==
  \/ BufIngest
  \/ BufReset

SpecBuf == InitBuf /\ [][BufNext]_vars

NoAdjacentEqualLabels ==
  \A h \in DOMAIN by_human :
    \A i \in 1..(Len(by_human[h].pose_segments) - 1) :
      by_human[h].pose_segments[i].label # by_human[h].pose_segments[i + 1].label

\* a tick of the label of the last segment leaves all but that segment's end_time
SameLabelTickExtends ==
  LET segs == Segments(by_human, BufHuman)
      n == Len(segs)
  IN (/\ lastOp' # lastOp
      /\ lastOp'.kind = "ingest"
      /\ n > 0
      /\ segs[n].label = lastOp'.label)
     => Segments(by_human', BufHuman) = [segs EXCEPT ![n].end_time = lastOp'.t]

\* C9: no two adjacent segments of an actor's buffer have the same label, whatever
\* ingests, truncations and resets came before; a tick of the last segment's label
\* adds no segment and only extends that segment's end_time
C9_NoAdjacentDuplicates == [](NoAdjacentEqualLabels) /\ [][SameLabelTickExtends]_vars

\* a truncated buffer whose last segment was extended by a tick of its label
C9_Witness ==
  LET segs == Segments(by_human, BufHuman)
  IN /\ Len(DictGet(appended, BufHuman, << >>)) > MAX_POSE_BUFFER_LEN
     /\ lastOp.kind = "ingest"
     /\ LastOf(segs).end_time = lastOp.t
     /\ LastOf(segs).start_time < lastOp.t

\* the buffer as (label, start_time) pairs
SegmentIds(segs) ==
  [i \in 1..Len(segs) |-> [label |-> segs[i].label, start_time |-> segs[i].start_time]]

\* C10: a buffer never holds more than MAX_POSE_BUFFER_LEN segments; once more than
\* that many were appended it holds exactly that many, the most recently appended
\* ones in the order of their arrival
C10_BufferBound ==
  \A h \in DOMAIN by_human :
    LET segs == by_human[h].pose_segments
        app == DictGet(appended, h, << >>)
    IN /\ Len(segs) <= MAX_POSE_BUFFER_LEN
       /\ SegmentIds(segs) = LastN(app, MAX_POSE_BUFFER_LEN)
       /\ Len(app) > MAX_POSE_BUFFER_LEN => Len(segs) = MAX_POSE_BUFFER_LEN

\* two segments more than the maximum were appended since the last reset
C10_Witness ==
  /\ Len(DictGet(appended, BufHuman, << >>)) > MAX_POSE_BUFFER_LEN + 1
  /\ Len(Segments(by_human, BufHuman)) = MAX_POSE_BUFFER_LEN

(***************************************************************************)
(* build_action_definitions applied to small configurations               *)
(***************************************************************************)
\* a raw constraint dict: the three keys the builder reads (NoneNum: key absent) and
\* a "pose" key by which an entry declares its pose (None: key absent)
RawConstraint(pose, min_duration) ==
  [pose |-> pose, min_duration |-> min_duration, max_duration |-> NoneNum,
   max_gap_after_prev |-> NoneNum]

BuildRawConstraints ==
  {RawConstraint(None, NoneNum), RawConstraint(None, 1),
   RawConstraint(Some("sitting"), NoneNum), RawConstraint(Some("walking"), NoneNum)}

\* the sequences of length 0..n over S
SeqsUpTo(S, n) == UNION {[1..k -> S] : k \in 0..n}

BuildNames == << "x" >>

BuildActionDicts ==
  {("x" :> << << "sitting", "standing" >> >>),
   ("x" :> << << "sitting", "standing" >>, << "walking" >> >>)}

\* no entry for the action, or a list of constraint lists for its templates
BuildConstraintDicts ==
  {[a \in {} |-> << >>]}
  \cup {("x" :> raw) : raw \in SeqsUpTo(SeqsUpTo(BuildRawConstraints, MaxRawLen), 2)}

InitBuild ==
  /\ InitCommon
  /\ procedures_by_event = MainRegistrations
  /\ feed = NoFeed
  /\ runs = None
  /\ pa_defs = action_defs
  /\ pretasks = PRETASK_DEFINITIONS
  /\ action_to_task = ACTION_TO_TASK
  /\ \E d \in BuildActionDicts, c \in BuildConstraintDicts :
       build_args = Some([action_def_dict |-> d, step_constraints_dict |-> c])

\* action_defs = build_action_definitions(action_def_dict, step_constraints_dict)
BuildCall ==
  /\ build_args # None
  /\ build_out = None
  /\ build_out' = Some(build_action_definitions(BuildNames,
                                                build_args[1].action_def_dict,
                                                build_args[1].step_constraints_dict))
  /\ UNCHANGED << schedVars, ctlVars, stateVars, memVars, prVars, execVars, ticks,
                  batch, feed, repeats, resets, callBase, appended, lastOp, build_args,
                  pa_defs, det_out, runs, pretasks, action_to_task, ghostVars >>

BuildNext == BuildCall

SpecBuild == InitBuild /\ [][BuildNext]_vars

\* the pairs (action, template index) for which a constraint list was supplied
SuppliedLists ==
  LET a == build_args[1]
  IN {p \in {"x"} \X (1..2) :
        /\ p[1] \in DOMAIN a.step_constraints_dict
        /\ p[2] <= Len(a.action_def_dict[p[1]])
        /\ p[2] <= Len(a.step_constraints_dict[p[1]])}

SuppliedList(p) == build_args[1].step_constraints_dict[p[1]][p[2]]

TemplateOf(p) == build_args[1].action_def_dict[p[1]][p[2]]

\* C15: build_action_definitions fails and returns nothing whenever a constraint list
\* supplied for a template differs in length from the template; in definitions that
\* were built every constraint list has the length of its template
C15_LengthMismatchFails ==
  build_out # None =>
    /\ (\E p \in SuppliedLists : Len(SuppliedList(p)) # Len(TemplateOf(p)))
         => ~build_out[1].ok /\ build_out[1].defs = << >>
    /\ build_out[1].ok =>
         \A i \in 1..Len(build_out[1].defs) :
           LET d == build_out[1].defs[i]
           IN d.step_constraints # None =>
                \A k \in 1..Len(d.step_constraints[1]) :
                  d.step_constraints[1][k] # None =>
                    Len(d.step_constraints[1][k][1]) = Len(d.sequences[k])

\* a build that failed on a list longer than its template
C15_Witness ==
  /\ build_out # None
  /\ ~build_out[1].ok
  /\ \E p \in SuppliedLists : Len(SuppliedList(p)) > Len(TemplateOf(p))

\* some entry of a supplied list of the right length declares another pose than the
\* template has at its position
DeclaredPoseMismatch ==
  \E p \in SuppliedLists :
    /\ Len(SuppliedList(p)) = Len(TemplateOf(p))
    /\ \E i \in 1..Len(TemplateOf(p)) :
         /\ SuppliedList(p)[i].pose # None
         /\ SuppliedList(p)[i].pose[1] # TemplateOf(p)[i]

\* C16: build_action_definitions rejects a constraint list in which an entry's declared
\* pose differs from the template's pose at the same position
C16_PoseMismatchRejected ==
  build_out # None /\ DeclaredPoseMismatch => ~build_out[1].ok

\* what the code guarantees: the pose of a built constraint is the template's label,
\* whatever the entry declared
BuiltPoseIsTemplatePose ==
  build_out # None /\ build_out[1].ok =>
    \A i \in 1..Len(build_out[1].defs) :
      LET d == build_out[1].defs[i]
      IN d.step_constraints # None =>
           \A k \in 1..Len(d.step_constraints[1]) :
             d.step_constraints[1][k] # None =>
               \A j \in 1..Len(d.step_constraints[1][k][1]) :
                 d.step_constraints[1][k][1][j].pose = d.sequences[k][j]

(***************************************************************************)
(* ProcedureA.detect_action on buffers built by ingest_pose_label, for     *)
(* action definitions with and without constraints                         *)
(***************************************************************************)
ActionConstraint(min_total_duration, max_total_duration) ==
  [min_total_duration |-> min_total_duration, max_total_duration |-> max_total_duration]

ActionDefinition(name, sequences, step_constraints, action_constraint) ==
  [name |-> name, sequences |-> sequences, step_constraints |-> step_constraints,
   action_constraint |-> action_constraint]

NoBound == [min_duration |-> NoneNum, max_duration |-> NoneNum,
            max_gap_after_prev |-> NoneNum]

\* templates that match together, in two actions with two templates each
DefsPlain ==
  << ActionDefinition("p", << << "sitting", "standing" >>, << "standing" >> >>,
                      None, None),
     ActionDefinition("q", << << "standing" >>, << "walking", "sitting", "standing" >> >>,
                      None, None) >>

\* step constraints on the first action; the second has the same template without
DefsSteps ==
  << ActionDefinition("p", << << "sitting", "standing" >>, << "walking" >> >>,
       Some(<< Some(<< StepConstraint("sitting", [NoBound EXCEPT !.min_duration = 1]),
                       StepConstraint("standing", [NoBound EXCEPT
                                                     !.max_duration = 1,
                                                     !.max_gap_after_prev = 1]) >>) >>),
       None),
     ActionDefinition("q", << << "sitting", "standing" >> >>, None, None) >>

\* a constraint on the whole action, and a later action with a shorter template
DefsTotal ==
  << ActionDefinition("p", << << "sitting", "standing" >> >>, None,
                      Some(ActionConstraint(2, 3))),
     ActionDefinition("q", << << "standing" >> >>,
       Some(<< Some(<< StepConstraint("standing", [NoBound EXCEPT !.max_duration = 0])
                    >>) >>),
       Some(ActionConstraint(NoneNum, 1))) >>

DetLabels == {"sitting", "standing", "walking"}

InitDetect ==
  /\ InitCommon
  /\ procedures_by_event = MainRegistrations
  /\ feed = NoFeed
  /\ build_args = None
  /\ runs = None
  /\ pretasks = PRETASK_DEFINITIONS
  /\ action_to_task = ACTION_TO_TASK
  /\ pa_defs \in {DefsPlain, DefsSteps, DefsTotal}

\* P.ingest_pose_label(pose_label, human_id, t), one or two time units after the last
DetIngest ==
  /\ \E pose_label \in DetLabels, dt \in 1..2 :
       /\ ticks + dt <= MaxDetTime
       /\ ticks' = ticks + dt
       /\ by_human' = ingest_pose_label(by_human, pose_label, BufHuman, ticks + dt).store
  /\ UNCHANGED << schedVars, ctlVars, stateVars, human_states, prVars, execVars, batch,
                  planVars, ghostVars >>

\* A.detect_action(now_t) on the actor's memory, once per buffer
DetDetect ==
  /\ Segments(by_human, BufHuman) # << >>
  /\ IF det_out = None THEN TRUE ELSE det_out[1].at # ticks
  /\ \E now_t \in {ticks, ticks + 1} :
       LET before == by_human[BufHuman]
           r == detect_action(before, now_t, pa_defs)
       IN /\ by_human' = [by_human EXCEPT ![BufHuman] = r.mem]
          /\ det_out' = Some([inst |-> r.inst, before |-> before, after |-> r.mem,
                              now_t |-> now_t, at |-> ticks])
  /\ UNCHANGED << schedVars, ctlVars, stateVars, human_states, prVars, execVars, ticks,
                  batch, feed, repeats, resets, callBase, appended, lastOp, build_args,
                  build_out, pa_defs, runs, pretasks, action_to_task, ghostVars >>

DetectNext ==
  \/ DetIngest
  \/ DetDetect

SpecDetect == InitDetect /\ [][DetectNext]_vars

\* the i-th of the last n segments of the buffer
MatchedSeg(mem, n, i) == mem.pose_segments[Len(mem.pose_segments) - n + i]

\* the template's labels equal the buffer's last Len(seq) labels
LabelsMatch(mem, seq) ==
  /\ Len(seq) <= Len(mem.pose_segments)
  /\ \A i \in 1..Len(seq) : MatchedSeg(mem, Len(seq), i).label = seq[i]

\* a bound that is not set is ignored
Within(x, lo, hi) == (lo # NoneNum => x >= lo) /\ (hi # NoneNum => x <= hi)

\* durations, gaps and total span of the matched segments are inside the set bounds
ConstraintsPass(mem, adef, si) ==
  LET n == Len(adef.sequences[si])
      hasSteps == /\ adef.step_constraints # None
                  /\ si <= Len(adef.step_constraints[1])
                  /\ adef.step_constraints[1][si] # None
  IN /\ hasSteps =>
          \A i \in 1..n :
             LET c == adef.step_constraints[1][si][1][i]
                 s == MatchedSeg(mem, n, i)
             IN /\ Within(s.end_time - s.start_time, c.min_duration, c.max_duration)
                /\ i > 1 => Within(s.start_time - MatchedSeg(mem, n, i - 1).end_time,
                                   NoneNum, c.max_gap_after_prev)
     /\ adef.action_constraint # None =>
          Within(MatchedSeg(mem, n, n).end_time - MatchedSeg(mem, n, 1).start_time,
                 adef.action_constraint[1].min_total_duration,
                 adef.action_constraint[1].max_total_duration)

Qualifies(mem, defs, p) ==
  /\ LabelsMatch(mem, defs[p[1]].sequences[p[2]])
  /\ ConstraintsPass(mem, defs[p[1]], p[2])

TemplateIndex(defs) ==
  UNION {{<< ai, si >> : si \in 1..Len(defs[ai].sequences)} : ai \in 1..Len(defs)}

\* declaration order of the actions, then template index
Earlier(p, q) == p[1] < q[1] \/ (p[1] = q[1] /\ p[2] < q[2])

\* C12: a returned instance is that of the first template, in declaration order then
\* template index, whose labels equal the buffer's last labels and whose constraints
\* pass: matched_sequence is the template, start_time the first matched segment's
\* start, end_time the now argument, confidence 1.0, and it is appended exactly once
\* to the recognized-action history.
C12_FirstTemplateInstance ==
  (det_out # None /\ det_out[1].inst # None) =>
    LET d == det_out[1]
        inst == d.inst[1]
    IN /\ \E p \in TemplateIndex(pa_defs) :
            LET seq == pa_defs[p[1]].sequences[p[2]]
            IN /\ Qualifies(d.before, pa_defs, p)
               /\ \A q \in TemplateIndex(pa_defs) :
                    Earlier(q, p) => ~Qualifies(d.before, pa_defs, q)
               /\ inst.name = pa_defs[p[1]].name
               /\ inst.matched_sequence = seq
               /\ inst.start_time = MatchedSeg(d.before, Len(seq), 1).start_time
               /\ inst.end_time = d.now_t
               /\ inst.confidence = 1
       /\ d.after.recognized_actions = Append(d.before.recognized_actions, inst)

\* several templates of both actions qualify and the first one is returned, on a
\* buffer whose history already holds an instance
C12_Witness ==
  /\ det_out # None
  /\ det_out[1].inst # None
  /\ pa_defs = DefsPlain
  /\ Cardinality({p \in TemplateIndex(pa_defs) :
                    Qualifies(det_out[1].before, pa_defs, p)}) = 3
  /\ det_out[1].inst[1].matched_sequence = << "sitting", "standing" >>
  /\ det_out[1].before.recognized_actions # << >>
  /\ det_out[1].now_t # det_out[1].at

NoConstraints(defs) ==
  \A ai \in 1..Len(defs) :
     defs[ai].step_constraints = None /\ defs[ai].action_constraint = None

\* C13: with no constraints an instance is returned exactly when some template no
\* longer than the buffer equals its last labels; without a match buffer and history
\* are unchanged; the segment buffer is never modified.
C13_MatchIffSuffix ==
  det_out # None =>
    LET d == det_out[1]
    IN /\ NoConstraints(pa_defs) =>
            /\ d.inst # None <=>
                 \E p \in TemplateIndex(pa_defs) :
                    LabelsMatch(d.before, pa_defs[p[1]].sequences[p[2]])
            /\ d.inst = None => d.after = d.before
       /\ d.after.pose_segments = d.before.pose_segments

\* a template as long as the whole buffer matched, and the buffer is as it was
C13_Witness ==
  /\ det_out # None
  /\ NoConstraints(pa_defs)
  /\ det_out[1].inst # None
  /\ Len(det_out[1].inst[1].matched_sequence) = 2
  /\ Len(det_out[1].before.pose_segments) = 2
  /\ det_out[1].after.pose_segments = det_out[1].before.pose_segments

\* no template matches and nothing changes
C13_NoMatchReached ==
  /\ det_out # None
  /\ NoConstraints(pa_defs)
  /\ det_out[1].inst = None
  /\ Len(det_out[1].before.pose_segments) >= 2

\* C14: a template with constraints is accepted exactly when the matched segments'
\* durations, gaps and total span are inside the bounds that are set; a template that
\* fails is skipped and later templates and actions are still tried.
C14_ConstraintsDecide ==
  det_out # None =>
    LET d == det_out[1]
    IN /\ d.inst # None <=>
            \E p \in TemplateIndex(pa_defs) : Qualifies(d.before, pa_defs, p)
       /\ d.inst # None =>
            \E p \in TemplateIndex(pa_defs) :
               /\ pa_defs[p[1]].name = d.inst[1].name
               /\ pa_defs[p[1]].sequences[p[2]] = d.inst[1].matched_sequence
               /\ Qualifies(d.before, pa_defs, p)

\* the first action's template matches the labels but fails its step constraints, and
\* the second action's template is accepted
C14_Witness ==
  /\ det_out # None
  /\ pa_defs = DefsSteps
  /\ det_out[1].inst # None
  /\ det_out[1].inst[1].name = "q"
  /\ LabelsMatch(det_out[1].before, pa_defs[1].sequences[1])
  /\ ~ConstraintsPass(det_out[1].before, pa_defs[1], 1)

\* the constrained templates are themselves accepted
C14_StepConstrainedAccepted ==
  /\ det_out # None
  /\ pa_defs = DefsSteps
  /\ det_out[1].inst # None
  /\ det_out[1].inst[1].name = "p"
  /\ det_out[1].inst[1].matched_sequence = << "sitting", "standing" >>

C14_TotalConstrainedAccepted ==
  /\ det_out # None
  /\ pa_defs = DefsTotal
  /\ det_out[1].inst # None
  /\ det_out[1].inst[1].name = "p"

C14_TotalConstrainedRejected ==
  /\ det_out # None
  /\ pa_defs = DefsTotal
  /\ det_out[1].inst = None
  /\ \E p \in TemplateIndex(pa_defs) :
        LabelsMatch(det_out[1].before, pa_defs[p[1]].sequences[p[2]])

(***************************************************************************)
(* The same label sequence fed once per label and k times per label, each  *)
(* tick being main's ingest, detect_action and, after a recognition, the   *)
(* episode reset of proc_on_task_completed                                 *)
(***************************************************************************)
TemplateSeqs == {action_defs[p[1]].sequences[p[2]] : p \in Templates}

\* a template, two templates one after the other, and a template followed by another
\* one without its first label
RepeatFeeds ==
  TemplateSeqs
  \cup {a \o b : a \in TemplateSeqs, b \in TemplateSeqs}
  \cup {a \o Tail(b) : a \in TemplateSeqs, b \in TemplateSeqs}

NewRun == [store |-> [h \in {} |-> EpisodeMemory], out |-> << >>, t |-> 0]

\* one PoseTick of the label: ingest_pose_label, detect_action and, on a recognition,
\* the reset of the episode that follows the dispatched task
pose_tick(run, pose_label) ==
  LET t == run.t + 1
      ing == ingest_pose_label(run.store, pose_label, BufHuman, t).store
      r == detect_action(ing[BufHuman], t, action_defs)
  IN IF r.inst = None
     THEN [run EXCEPT !.store = ing, !.t = t]
     ELSE [store |-> clear_human([ing EXCEPT ![BufHuman] = r.mem], BufHuman),
           out |-> Append(run.out, << r.inst[1].name, r.inst[1].matched_sequence >>),
           t |-> t]

RECURSIVE pose_ticks(_, _, _)
pose_ticks(run, pose_label, n) ==
  IF n = 0 THEN run ELSE pose_ticks(pose_tick(run, pose_label), pose_label, n - 1)

InitRepeat ==
  /\ InitCommon
  /\ procedures_by_event = MainRegistrations
  /\ feed = NoFeed
  /\ build_args = None
  /\ pa_defs = action_defs
  /\ pretasks = PRETASK_DEFINITIONS
  /\ action_to_task = ACTION_TO_TASK
  /\ \E labels \in RepeatFeeds, k \in 1..MaxK :
       runs = Some([labels |-> labels, k |-> k, pos |-> 1, once |-> NewRun,
                    rep |-> NewRun])

\* the next label of the sequence: one tick in the run `once`, k ticks in the run `rep`
RepeatFeed ==
  /\ runs # None
  /\ runs[1].pos <= Len(runs[1].labels)
  /\ LET r == runs[1]
         pose_label == r.labels[r.pos]
     IN runs' = Some([r EXCEPT !.pos = @ + 1,
                               !.once = pose_tick(r.once, pose_label),
                               !.rep = pose_ticks(r.rep, pose_label, r.k)])
  /\ UNCHANGED << schedVars, ctlVars, stateVars, memVars, prVars, execVars, ticks, batch,
                  feed, repeats, resets, callBase, appended, lastOp, build_args,
                  build_out, pa_defs, det_out, pretasks, action_to_task, ghostVars >>

RepeatNext == RepeatFeed

SpecRepeat == InitRepeat /\ [][RepeatNext]_vars

RepeatDone == runs # None /\ runs[1].pos > Len(runs[1].labels)

\* C11: the recognized actions, their order and their matched templates are the same
\* whether each label of the sequence is fed once or k times consecutively.
C11_RepeatSameOutcome ==
  RepeatDone => runs[1].rep.out = runs[1].once.out

\* as long as the repeated run has recognized nothing, neither has the other and the
\* two buffers hold the same labels
C11_SameUntilRecognition ==
  (runs # None /\ runs[1].rep.out = << >>) =>
    /\ runs[1].once.out = << >>
    /\ pose_label_sequence(StoreGet(runs[1].rep.store, BufHuman)[BufHuman])
         = pose_label_sequence(StoreGet(runs[1].once.store, BufHuman)[BufHuman])

(***************************************************************************)
(* ProcedureR driven through its two procedures: BestFamilyChanged and     *)
(* ActionRecognized events are emitted and drained one at a time, under    *)
(* the configured mappings and under mappings with one entry missing       *)
(***************************************************************************)
CoordHuman == "human_1"

\* the families with an attached pretask, and one without
CoordFamilyIds ==
  {f.family_id : f \in {g \in families : g.pre_task # None}}
  \cup {FamilyId(<< "sitting", "standing" >>)}

CoordActionNames == {"drinking_water", "washing_hands"}

CoordInstance(name, t) ==
  [name |-> name, matched_sequence |-> ACTION_DEFINITIONS[name][1], start_time |-> t,
   end_time |-> t, confidence |-> 1]

DictWithout(d, k) == [x \in DOMAIN d \ {k} |-> d[x]]

InitCoord ==
  /\ InitCommon
  /\ procedures_by_event = MainRegistrations
  /\ feed = NoFeed
  /\ build_args = None
  /\ runs = None
  /\ pa_defs = action_defs
  /\ \/ pretasks = PRETASK_DEFINITIONS /\ action_to_task = ACTION_TO_TASK
     \/ /\ pretasks = DictWithout(PRETASK_DEFINITIONS, "pretask_scan_pick_area")
        /\ action_to_task = ACTION_TO_TASK
     \/ /\ pretasks = PRETASK_DEFINITIONS
        /\ action_to_task = DictWithout(ACTION_TO_TASK, "washing_hands")

CoordEmit(ev) ==
  /\ pc = "idle"
  /\ batch = 0
  /\ ticks < MaxCoordCalls
  /\ ticks' = ticks + 1
  /\ batch' = 1
  /\ SetSched(emit(Sched, ev))
  /\ ret' = None
  /\ UNCHANGED << pc, cur, pi, processed, max_events, stateVars, memVars, prVars,
                  execVars, planVars, ghostVars >>

\* s.emit("BestFamilyChanged", {"human_id": hid, "family_id": ...})
CoordEmitFamily ==
  /\ Len(threads) < MaxThreads
  /\ \E fam_id \in CoordFamilyIds :
       CoordEmit([RuntimeEvent("BestFamilyChanged", CoordHuman, ticks + 1)
                    EXCEPT !.family_id = fam_id])

\* s.emit("ActionRecognized", {"human_id": hid, "action_inst": inst})
CoordEmitAction ==
  \E name \in CoordActionNames :
     CoordEmit([RuntimeEvent("ActionRecognized", CoordHuman, ticks + 1)
                  EXCEPT !.action_inst = Some(CoordInstance(name, ticks + 1))])

\* the steps of the thread that owns the scheduler and the coordinator
CoordThread ==
  \/ MainRunUntilIdle
  \/ LoopPop
  \/ LoopExit
  \/ ProcsDone
  \/ proc_prepare_family
  \/ JoinThreadExited
  \/ JoinTimeout
  \/ CancelCleanup
  \/ PrepareStart
  \/ proc_dispatch_task
  \/ DispatchResolve
  \/ ExecStepBegin
  \/ ExecSleep
  \/ DispatchFinish
  \/ proc_on_task_completed

CoordNext ==
  \/ CoordEmitFamily
  \/ CoordEmitAction
  \/ CoordThread
  \/ Worker

SpecCoord == InitCoord /\ [][CoordNext]_vars

\* the coordinator's thread runs on; the pretask thread may make no progress at all
FairSpecCoord == SpecCoord /\ WF_vars(CoordThread)

Unmapped == cur.action_inst[1].name \notin DOMAIN action_to_task

\* C17: when the recognized action has no entry in the action-to-task mapping, dispatch
\* raises: no behavior step of a final task is executed, nothing is appended to the
\* executed-task history, no TaskCompleted event is emitted, and nothing of the
\* scheduler's thread runs afterwards, so the dispatch is not tried again.
C17_UnmappedDispatchRaises ==
  [][/\ (pc = "d_resolve" /\ Unmapped) =>
          /\ pc' \in {"d_resolve", "raised"}
          /\ UNCHANGED << execVars, by_human, queue, _event_counter >>
     /\ pc = "raised" =>
          /\ pc' = "raised"
          /\ UNCHANGED << execVars, by_human, queue, _event_counter, cur, pi, mode,
                          ticks >>]_vars

\* dispatch of an unmapped action has raised while further calls were still to come
C17_Witness ==
  /\ pc = "raised"
  /\ cur.name = "ActionRecognized"
  /\ Unmapped
  /\ ticks < MaxCoordCalls
  /\ Segments(by_human, CoordHuman) = << >>
  /\ ~\E i \in 1..Len(queue) : queue[i].name = "TaskCompleted"

\* C18: prepare_family on a family whose pretask name is not among the pretask
\* definitions fails as a fatal error instead of returning normally.
C18_UnknownPretaskFatal ==
  [][(/\ pc = "p_start"
      /\ FamilyById(cur.family_id).pre_task[1] \notin DOMAIN pretasks
      /\ pc' # pc) => pc' = "raised"]_vars

\* what prepare_family does for an unknown pretask: it returns to the scheduler with the
\* family marked as prepared and no thread started
UnknownPretaskReturns ==
  [][(/\ pc = "p_start"
      /\ FamilyById(cur.family_id).pre_task[1] \notin DOMAIN pretasks
      /\ pc' # pc) =>
        /\ pc' = "procs"
        /\ pi' = pi + 1
        /\ current_prepared_family_id' = Some(cur.family_id)
        /\ UNCHANGED << threads, _pretask_thread >>]_vars

\* cancel_pretask is past its join and the thread it joined is still alive
JoinTimedOutNow == pc = "c_cleanup" /\ th # None /\ is_alive(th[1])

\* prepare_family has returned with a new thread running the family's pretask
PrepareStarted ==
  /\ pc = "procs"
  /\ lastRun.name = "PrepareFamilyPretask"
  /\ current_prepared_family_id = Some(cur.family_id)
  /\ _pretask_thread # None
  /\ _pretask_thread # th
  /\ threads[_pretask_thread[1]].task = FamilyById(cur.family_id).pre_task[1]

\* dispatch has returned the task's name: it is in the executed-task history and in the
\* TaskCompleted event emitted last
DispatchReturned ==
  /\ pc = "procs"
  /\ lastRun.name = "DispatchTask"
  /\ queue # << >>
  /\ queue[Len(queue)].name = "TaskCompleted"
  /\ queue[Len(queue)].task_name = action_to_task[cur.action_inst[1].name]
  /\ CoordHuman \in DOMAIN by_human
  /\ by_human[CoordHuman].executed_tasks # << >>
  /\ LastOf(by_human[CoordHuman].executed_tasks)
       = action_to_task[cur.action_inst[1].name]

\* C19: cancel_pretask with join always returns to its caller, whether the thread exits
\* or the join times out with the thread making no progress; after a timed-out join
\* prepare_family still starts the new routine and dispatch still executes the final
\* task and returns its name; the only error raised is that of an unmapped action.
C19_CancelJoinBounded ==
  /\ (pc = "c_join") ~> (pc = "p_start" \/ pc = "d_resolve")
  /\ (/\ JoinTimedOutNow
      /\ caller = "prepare"
      /\ FamilyById(cur.family_id).pre_task[1] \in DOMAIN pretasks) ~> PrepareStarted
  /\ (JoinTimedOutNow /\ caller = "dispatch" /\ ~Unmapped) ~> DispatchReturned
  /\ [](pc = "raised" => (caller = "dispatch" /\ Unmapped))

\* a join timed out, the final task was executed to its end and dispatch returned, with
\* the joined thread still alive
C19_Witness ==
  /\ joinTimedOut
  /\ caller = "dispatch"
  /\ DispatchReturned
  /\ th # None
  /\ is_alive(th[1])

\* a join timed out and prepare_family started the new routine beside the old thread
C19_PrepareAfterTimeout ==
  /\ joinTimedOut
  /\ caller = "prepare"
  /\ PrepareStarted
  /\ th # None
  /\ is_alive(th[1])

\* a preparation for the event's family is still running
SameFamilyRunning ==
  /\ current_prepared_family_id = Some(cur.family_id)
  /\ _pretask_thread # None
  /\ is_alive(_pretask_thread[1])

\* the step is proc_prepare_family for a family with an attached, defined pretask
PrepareCalled ==
  /\ ProcReady("PrepareFamilyPretask")
  /\ FamilyById(cur.family_id).pre_task # None
  /\ FamilyById(cur.family_id).pre_task[1] \in DOMAIN pretasks
  /\ pc' # pc \/ pi' # pi

\* prepare_family returns at once, without cancelling or starting anything
PrepareNoOp == pc' = "procs" /\ pi' = pi + 1 /\ UNCHANGED prVars

\* C20: prepare_family for a family with an attached pretask is a no-op exactly when a
\* preparation for that same family is still running.
C20_NoOpIffSameFamilyRunning ==
  [][PrepareCalled => (PrepareNoOp <=> SameFamilyRunning)]_vars

\* the no-op is decided by the marker alone, whether or not the thread is alive
NoOpIffSameFamilyMarked ==
  [][PrepareCalled =>
       (PrepareNoOp <=> current_prepared_family_id = Some(cur.family_id))]_vars

\* the step is proc_prepare_family for a family without an attached pretask
PrepareCalledNoPretask ==
  /\ ProcReady("PrepareFamilyPretask")
  /\ FamilyById(cur.family_id).pre_task = None
  /\ pc' # pc \/ pi' # pi

\* C21: prepare_family on a family with no attached pretask changes nothing: it neither
\* cancels nor joins a running preparation, starts no thread and leaves the
\* prepared-family marker unchanged.
C21_NoPretaskNoEffect ==
  [][PrepareCalledNoPretask =>
       /\ pc' = "procs"
       /\ pi' = pi + 1
       /\ UNCHANGED << prVars, execVars, memVars, mode, queue >>]_vars

\* prepare_family has returned for the family without pretask while the preparation of
\* another family runs on, its token unset and the marker still naming that family
C21_Witness ==
  /\ pc = "procs"
  /\ lastRun.name = "PrepareFamilyPretask"
  /\ lastRun.seq = cur.seq
  /\ cur.name = "BestFamilyChanged"
  /\ FamilyById(cur.family_id).pre_task = None
  /\ _pretask_thread # None
  /\ is_alive(_pretask_thread[1])
  /\ _pretask_stop_event \notin token_set
  /\ current_prepared_family_id # None
  /\ current_prepared_family_id # Some(cur.family_id)

(***************************************************************************)
(* The pretask thread under fair scheduling                                *)
(***************************************************************************)
\* the steps of pretask thread tid
WorkerThread(tid) ==
  /\ tid <= Len(threads)
  /\ \/ WorkerStart(tid)
     \/ WorkerLoop(tid)
     \/ WorkerRunCheck(tid)
     \/ WorkerStepBegin(tid)
     \/ WorkerSleep(tid)

\* every pretask thread that can take a step eventually takes one
FairSpecWorker == SpecCoord /\ \A tid \in 1..MaxThreads : WF_vars(WorkerThread(tid))

\* the stop event that thread tid passes to execute_task is set
ObservedSet(tid) ==
  /\ tid <= Len(threads)
  /\ threads[tid].token # None
  /\ TokenSet(tid)

ExecutedTasks(store, human_id) ==
  IF human_id \in DOMAIN store THEN store[human_id].executed_tasks ELSE << >>

\* C23: a successful dispatch executes every behavior step of the mapped task exactly
\* once and in definition order, each for its full dwell whatever stop events are set,
\* and only after the last step appends the task name once to the actor's executed-task
\* history and returns it (it is the task_name of the TaskCompleted event).
C23_DispatchRunsEveryStep ==
  [][/\ ftask' # ftask =>
          pc = "d_resolve" /\ ftask' = action_to_task[cur.action_inst[1].name]
     /\ fstep' # fstep =>
          \/ pc = "d_resolve" /\ fstep' = 1
          \/ /\ pc = "exec_step"
             /\ fstep' = fstep + 1
             /\ fremaining <= SleepTick
             /\ fremaining' = 0
     /\ (pc # "exec_step" /\ pc' = "exec_step") =>
          /\ pc = "exec"
          /\ fstep' = fstep
          /\ fstep <= Len(TASK_DEFINITIONS[ftask])
          /\ fremaining' = BEHAVIOR_STEP_SECONDS
     /\ (pc = "exec_step" /\ fremaining' # fremaining) =>
          fremaining' = fremaining - Min(SleepTick, fremaining)
     /\ (pc \in {"exec", "exec_step"} /\ pc' \notin {"exec", "exec_step"}) =>
          /\ pc = "exec"
          /\ fstep = Len(TASK_DEFINITIONS[ftask]) + 1
          /\ ExecutedTasks(by_human', cur.human_id)
               = Append(ExecutedTasks(by_human, cur.human_id), ftask)
          /\ queue' = Append(queue, queue'[Len(queue')])
          /\ queue'[Len(queue')].name = "TaskCompleted"
          /\ queue'[Len(queue')].task_name = ftask
     /\ Len(ExecutedTasks(by_human', CoordHuman)) > Len(ExecutedTasks(by_human, CoordHuman))
          => pc = "exec" /\ pc' = "procs"]_vars

\* dispatch has returned after the last step of the task, with a stop event set all
\* through the task's execution
C23_Witness ==
  /\ pc = "procs"
  /\ lastRun.name = "DispatchTask"
  /\ cur.name = "ActionRecognized"
  /\ fstep = Len(TASK_DEFINITIONS[ftask]) + 1
  /\ ExecutedTasks(by_human, CoordHuman) = << ftask >>
  /\ ftask = action_to_task[cur.action_inst[1].name]
  /\ _pretask_stop_event \in token_set
  /\ queue # << >>
  /\ queue[Len(queue)].task_name = ftask

(***************************************************************************)
(* MultiHumanMemoryStore with two actors: ticks ingested, actions          *)
(* recognized, task names recorded and episodes reset, in any order        *)
(***************************************************************************)
StoreHumans == {"human_1", "human_2"}

StoreLabels == {"sitting", "standing"}

InitStore ==
  /\ InitCommon
  /\ procedures_by_event = MainRegistrations
  /\ feed = NoFeed
  /\ build_args = None
  /\ runs = None
  /\ pretasks = PRETASK_DEFINITIONS
  /\ action_to_task = ACTION_TO_TASK
  /\ pa_defs = DefsPlain

StoreUnchanged ==
  UNCHANGED << schedVars, ctlVars, stateVars, human_states, prVars, execVars, batch,
               feed, repeats, callBase, appended, caseVars, ghostVars >>

\* pp.ingest_pose_label(pose_label, human_id, t) at the next timestamp
StoreIngest ==
  /\ ticks < MaxStoreTicks
  /\ \E human_id \in StoreHumans, pose_label \in StoreLabels :
       /\ by_human' = ingest_pose_label(by_human, pose_label, human_id, ticks + 1).store
       /\ lastOp' = [kind |-> "ingest", human_id |-> human_id, label |-> pose_label,
                     t |-> ticks + 1]
  /\ ticks' = ticks + 1
  /\ UNCHANGED resets
  /\ StoreUnchanged

\* detect_action on the actor's memory, once after an ingest
StoreDetect ==
  /\ lastOp.kind = "ingest"
  /\ \E human_id \in StoreHumans :
       LET st == StoreGet(by_human, human_id)
           r == detect_action(st[human_id], ticks, pa_defs)
       IN /\ by_human' = [st EXCEPT ![human_id] = r.mem]
          /\ lastOp' = [kind |-> "detect", human_id |-> human_id, label |-> "",
                        t |-> ticks]
  /\ UNCHANGED << ticks, resets >>
  /\ StoreUnchanged

\* dispatch's executed_tasks.append(task_name) for an actor with a recognized action
StoreExecuted ==
  /\ \E human_id \in DOMAIN by_human :
       /\ by_human[human_id].recognized_actions # << >>
       /\ by_human[human_id].executed_tasks = << >>
       /\ by_human' = [by_human EXCEPT ![human_id].executed_tasks =
                         Append(@, "localise_and_deliver_book")]
       /\ lastOp' = [kind |-> "executed", human_id |-> human_id, label |-> "",
                     t |-> ticks]
  /\ UNCHANGED << ticks, resets >>
  /\ StoreUnchanged

\* pu.reset_episode(human_id)
StoreReset ==
  /\ resets < MaxStoreResets
  /\ \E human_id \in StoreHumans :
       /\ by_human' = clear_human(by_human, human_id)
       /\ lastOp' = [kind |-> "reset", human_id |-> human_id, label |-> "", t |-> ticks]
  /\ resets' = resets + 1
  /\ UNCHANGED ticks
  /\ StoreUnchanged

StoreNext ==
  \/ StoreIngest
  \/ StoreDetect
  \/ StoreExecuted
  \/ StoreReset

SpecStore == InitStore /\ [][StoreNext]_vars

\* C24: an actor's memory is created on first access and never removed: the set of
\* known actors never shrinks; a reset empties the actor's segment buffer,
\* recognized-action list and executed-task list and keeps the actor's entry, and the
\* next tick of that actor starts the emptied memory's buffer.
C24_ActorsNeverRemoved ==
  [][/\ DOMAIN by_human \subseteq DOMAIN by_human'
     /\ lastOp'.human_id \in DOMAIN by_human'
     /\ resets' # resets =>
          by_human'[lastOp'.human_id] =
            [pose_segments |-> << >>, recognized_actions |-> << >>,
             executed_tasks |-> << >>]
     /\ (lastOp.kind = "reset" /\ ticks' # ticks
         /\ lastOp'.human_id = lastOp.human_id) =>
          by_human'[lastOp'.human_id] =
            [pose_segments |-> << [label |-> lastOp'.label, start_time |-> ticks',
                                   end_time |-> ticks'] >>,
             recognized_actions |-> << >>, executed_tasks |-> << >>]]_vars

\* after a reset an actor was fed a tick and its memory holds that one segment only,
\* while the other actor holds a recognized action and an executed task
C24_Witness ==
  /\ lastOp.kind = "ingest"
  /\ resets > 0
  /\ DOMAIN by_human = StoreHumans
  /\ Len(by_human[lastOp.human_id].pose_segments) = 1
  /\ by_human[lastOp.human_id].recognized_actions = << >>
  /\ \E h \in StoreHumans \ {lastOp.human_id} :
        /\ by_human[h].recognized_actions # << >>
        /\ by_human[h].executed_tasks # << >>

FamDefsOneAction ==
  << ActionDefinition("p", << << "sitting", "standing" >>,
                              << "sitting", "standing", "walking" >> >>, None, None),
     ActionDefinition("q", << << "sitting", "walking" >> >>, None, None) >>

\* labels with and without the separator of the family id
FamDefsSeparator ==
  << ActionDefinition("u", << << "raising", "hand", "bowing" >> >>, None, None),
     ActionDefinition("v", << << "raising", "hand", "bowing", "sitting" >> >>, None, None),
     ActionDefinition("w", << << "raising_hand", "bowing" >> >>, None, None),
     ActionDefinition("x", << << "raising_hand", "bowing", "sitting" >> >>, None, None) >>

FamDefs == {action_defs, FamDefsOneAction, FamDefsSeparator}

\* no mapping, the configured one, and one with entries for the other definitions
FamPretasks ==
  { [p \in {} |-> ""],
    FAMILY_PRETASK_BY_PREFIX,
    (<< "sitting", "standing" >> :> "pretask_observe_and_scan")
      @@ (<< "raising_hand", "bowing" >> :> "pretask_scan_pick_area") }

InitFamilies ==
  /\ InitCommon
  /\ procedures_by_event = MainRegistrations
  /\ feed = NoFeed
  /\ runs = None
  /\ pa_defs = action_defs
  /\ pretasks = PRETASK_DEFINITIONS
  /\ action_to_task = ACTION_TO_TASK
  /\ \E defs \in FamDefs, min_prefix_len \in 1..MaxMinPrefixLen,
        min_members \in 1..MaxMinMembers, pretask_by_prefix \in FamPretasks :
       build_args = Some([action_defs |-> defs, min_prefix_len |-> min_prefix_len,
                          min_members |-> min_members,
                          pretask_by_prefix |-> pretask_by_prefix])

\* families = build_action_families(action_defs, min_prefix_len, min_members, ...)
FamCall ==
  /\ build_args # None
  /\ build_out = None
  /\ build_out' = Some(build_action_families(build_args[1].action_defs,
                                             build_args[1].min_prefix_len,
                                             build_args[1].min_members,
                                             build_args[1].pretask_by_prefix))
  /\ UNCHANGED << schedVars, ctlVars, stateVars, memVars, prVars, execVars, ticks, batch,
                  feed, repeats, resets, callBase, appended, lastOp, build_args, pa_defs,
                  det_out, runs, pretasks, action_to_task, ghostVars >>

FamNext == FamCall

SpecFamilies == InitFamilies /\ [][FamNext]_vars

IsPrefixOf(p, seq) ==
  Len(p) <= Len(seq) /\ \A i \in 1..Len(p) : seq[i] = p[i]

\* the actions one of whose templates begins with p
ActionsWith(defs, p) ==
  {defs[i].name : i \in {j \in 1..Len(defs) :
     \E k \in 1..Len(defs[j].sequences) : IsPrefixOf(p, defs[j].sequences[k])}}

\* every non-empty prefix of every template
TemplatePrefixes(defs) ==
  {SubSeq(defs[i[1]].sequences[i[2]], 1, i[3]) :
     i \in {j \in (1..Len(defs)) \X (1..3) \X (1..7) :
              /\ j[2] <= Len(defs[j[1]].sequences)
              /\ j[3] <= Len(defs[j[1]].sequences[j[2]])}}

FamQualifies(a, p) ==
  /\ Len(p) >= a.min_prefix_len
  /\ Cardinality(ActionsWith(a.action_defs, p)) >= a.min_members

\* every returned family is one of a qualifying prefix, with exactly the actions of
\* that prefix as members and the mapping's value for that prefix, if any, as pre_task
FamiliesAreSound ==
  build_out # None =>
    \A f \in build_out[1] :
       /\ FamQualifies(build_args[1], f.prefix)
       /\ f.members = ActionsWith(build_args[1].action_defs, f.prefix)
       /\ f.pre_task = IF f.prefix \in DOMAIN build_args[1].pretask_by_prefix
                       THEN Some(build_args[1].pretask_by_prefix[f.prefix])
                       ELSE None

\* C26: build_action_families produces a family for a prefix if and only if the prefix
\* has length at least min_prefix_len and is a prefix of templates of at least
\* min_members distinct actions; its members are exactly those actions and its pre_task
\* is the mapping's value for that exact prefix when present and none otherwise.
C26_FamilyIffQualifies ==
  build_out # None =>
    /\ FamiliesAreSound
    /\ \A p \in TemplatePrefixes(build_args[1].action_defs) :
         FamQualifies(build_args[1], p) => \E f \in build_out[1] : f.prefix = p

\* when no two qualifying prefixes have the same family id, each has its family
FamilyIffQualifiesWhenIdsDiffer ==
  build_out # None =>
    LET a == build_args[1]
        qual == {p \in TemplatePrefixes(a.action_defs) : FamQualifies(a, p)}
    IN (\A p, q \in qual : FamilyId(p) = FamilyId(q) => p = q) =>
         \A p \in qual : \E f \in build_out[1] : f.prefix = p

(***************************************************************************)
(* compute_candidate_actions and compute_early_intent on successive ticks  *)
(***************************************************************************)
IntentLabels == {"sitting", "standing", "walking"}

\* templates that repeat their own beginning, so that several prefixes match at once
IntentDefsNested ==
  << ActionDefinition("a", << << "sitting", "standing", "sitting", "standing" >> >>,
                      None, None),
     ActionDefinition("c", << << "sitting", "standing", "sitting", "standing",
                                 "walking" >> >>, None, None),
     ActionDefinition("d", << << "walking", "sitting" >> >>, None, None) >>

InitIntent ==
  /\ InitCommon
  /\ procedures_by_event = MainRegistrations
  /\ feed = NoFeed
  /\ runs = None
  /\ pretasks = PRETASK_DEFINITIONS
  /\ action_to_task = ACTION_TO_TASK
  /\ pa_defs \in {action_defs, IntentDefsNested}
  /\ \E min_prefix_len \in 1..2, min_members \in 1..2 :
       build_args = Some([min_prefix_len |-> min_prefix_len, min_members |-> min_members,
                          pretask_by_prefix |-> FAMILY_PRETASK_BY_PREFIX])

\* the families built at start-up from the definitions in use
IntentFamilies ==
  build_action_families(pa_defs, build_args[1].min_prefix_len,
                        build_args[1].min_members, build_args[1].pretask_by_prefix)

\* one tick: P.ingest_pose_label, then A.compute_early_intent on the actor's memory
IntentTick ==
  /\ ticks < MaxIntentTicks
  /\ \E pose_label \in IntentLabels :
       LET before == StoreGet(by_human, BufHuman)[BufHuman]
           store == ingest_pose_label(by_human, pose_label, BufHuman, ticks + 1).store
           after == store[BufHuman]
       IN /\ ticks' = ticks + 1
          /\ by_human' = store
          /\ det_out' = Some([pose_label |-> pose_label,
                              before |-> pose_label_sequence(before),
                              after |-> pose_label_sequence(after),
                              cand_before |-> compute_candidate_actions(before, pa_defs),
                              cand_after |-> compute_candidate_actions(after, pa_defs),
                              intent |-> compute_early_intent(after, pa_defs,
                                                              IntentFamilies)])
  /\ UNCHANGED << schedVars, ctlVars, stateVars, human_states, prVars, execVars, batch,
                  feed, repeats, resets, callBase, appended, lastOp, build_args,
                  build_out, pa_defs, runs, pretasks, action_to_task, ghostVars >>

IntentNext == IntentTick

SpecIntent == InitIntent /\ [][IntentNext]_vars

\* the whole of seq equals the last Len(seq) labels
IsSuffixOf(seq, labels) ==
  /\ Len(seq) <= Len(labels)
  /\ \A i \in 1..Len(seq) : labels[Len(labels) - Len(seq) + i] = seq[i]

FamiliesMatching(labels) == {f \in IntentFamilies : IsSuffixOf(f.prefix, labels)}

\* C27: compute_early_intent reports no best family when no family's entire prefix
\* equals the last labels of the buffer; otherwise the best family is a matching family
\* whose prefix is at least as long as that of every matching family, and no other
\* matching family has a prefix of that length, so that no iteration order or
\* tie-break can select another family_id.
C27_BestIsLongestMatch ==
  det_out # None =>
    LET mf == FamiliesMatching(det_out[1].after)
        best == det_out[1].intent.best_family_id
    IN /\ (best = None) <=> (mf = {})
       /\ mf # {} =>
            \E f \in mf :
               /\ best = Some(f.family_id)
               /\ det_out[1].intent.best_prefix_len = Len(f.prefix)
               /\ \A g \in mf : Len(g.prefix) <= Len(f.prefix)
               /\ \A g \in mf : Len(g.prefix) = Len(f.prefix) => g = f
               /\ \A g \in IntentFamilies : g.family_id = f.family_id => g = f

\* two families of different lengths match and the longer one is reported
C27_Witness ==
  /\ det_out # None
  /\ \E f, g \in FamiliesMatching(det_out[1].after) :
       /\ Len(g.prefix) < Len(f.prefix)
       /\ det_out[1].intent.best_family_id = Some(f.family_id)

\* the greatest length in the candidates dict, 0 when it is empty
BestLen(cand) ==
  LET lens == UNION {{cand[a][i] : i \in 1..Len(cand[a])} : a \in DOMAIN cand}
  IN IF lens = {} THEN 0 ELSE CHOOSE m \in lens : \A k \in lens : k <= m

TemplatesInUse ==
  UNION {{pa_defs[i].sequences[k] : k \in 1..Len(pa_defs[i].sequences)} :
           i \in 1..Len(pa_defs)}

\* lengths of the template prefixes that equal the last labels
MatchLens(labels) ==
  {m \in 1..Len(labels) :
     \E seq \in TemplatesInUse : m <= Len(seq) /\ IsSuffixOf(SubSeq(seq, 1, m), labels)}

\* the tick appended a segment (a repeated label extends the last one instead)
NewSegment == det_out[1].after # det_out[1].before

\* the tick's label continues a template whose first m labels ended the buffer
Extends(m) ==
  /\ NewSegment
  /\ \E seq \in TemplatesInUse :
       /\ m < Len(seq)
       /\ IsSuffixOf(SubSeq(seq, 1, m), det_out[1].before)
       /\ seq[m + 1] = det_out[1].pose_label

ExtendsBest ==
  /\ BestLen(det_out[1].cand_before) >= 1
  /\ Extends(BestLen(det_out[1].cand_before))

\* the statement as worded: a tick that extends any template prefix that matched
\* before it never lowers the best matching prefix length, and a tick after which no
\* template prefix matches leaves the length 0
C28_NeverDecreasesWhileExtending ==
  det_out # None =>
    /\ (\E m \in MatchLens(det_out[1].before) : Extends(m)) =>
         BestLen(det_out[1].cand_after) >= BestLen(det_out[1].cand_before)
    /\ MatchLens(det_out[1].after) = {} => BestLen(det_out[1].cand_after) = 0

\* C28: the best matching prefix length is the length of the longest template prefix
\* equal to the last labels of the buffer (0 when there is none).  A tick that repeats
\* the last label leaves it unchanged, a tick that extends the longest matching prefix
\* raises it by one, and any other tick leaves it at most the length of a shorter match
\* extended by the tick, 1 for a template's first label, or 0: never above its value
\* before the tick, except from 0 to 1.
C28_BestLenFollowsLongestMatch ==
  det_out # None =>
    LET b == BestLen(det_out[1].cand_before)
        a == BestLen(det_out[1].cand_after)
        ml == MatchLens(det_out[1].after)
    IN /\ a = IF ml = {} THEN 0 ELSE CHOOSE m \in ml : \A k \in ml : k <= m
       /\ ~NewSegment => a = b
       /\ ExtendsBest => a = b + 1
       /\ (NewSegment /\ ~ExtendsBest) =>
            /\ a <= Max(b, 1)
            /\ a = 0 \/ a = 1 \/ \E m \in MatchLens(det_out[1].before) :
                                    m < b /\ Extends(m) /\ a = m + 1

\* three successive labels of one template: the last tick extended the longest match
C28_Witness ==
  /\ det_out # None
  /\ ExtendsBest
  /\ BestLen(det_out[1].cand_after) >= 3

\* the longest match ended and a shorter one was extended by the same tick
C28_DropsToShorterMatch ==
  /\ det_out # None
  /\ NewSegment
  /\ ~ExtendsBest
  /\ BestLen(det_out[1].cand_after) >= 2
  /\ BestLen(det_out[1].cand_after) < BestLen(det_out[1].cand_before)

(***************************************************************************)
(* The pipeline of main.py fed with label sequences in which a family is   *)
(* the best one during more than one run of ticks                          *)
(***************************************************************************)
BestFeeds ==
  { << "sitting", "standing", "walking", "sitting", "standing", "walking" >>,
    << "sitting", "standing", "walking", "picking" >>,
    << "sitting", "standing", "walking", "bowing" >>,
    << "sitting", "standing", "picking", "sitting", "standing" >>,
    << "sitting", "standing", "walking", "bowing", "sitting", "standing", "walking" >> }

\* best_family_id of compute_early_intent on the actor's present buffer
BestOf(store) ==
  compute_early_intent(StoreGet(store, BufHuman)[BufHuman], action_defs,
                       families).best_family_id

InitBest ==
  /\ InitCommon
  /\ procedures_by_event = MainRegistrations
  /\ feed = NoFeed
  /\ build_args = None
  /\ pa_defs = action_defs
  /\ pretasks = PRETASK_DEFINITIONS
  /\ action_to_task = ACTION_TO_TASK
  /\ \E labels \in BestFeeds :
       runs = Some([labels |-> labels, pos |-> 1, rep |-> 0, prev_best |-> None,
                    marker0 |-> None, threads0 |-> 0, last0 |-> None,
                    tokens0 |-> {}])

\* the main loop's next tick, emitted after the drain of the one before: the label at
\* pos, followed by a tick of the same label (rep counts these) or by the next label.
\* The best family, the prepared family, the number of routines started so far, the
\* last-best-family record and the tokens set so far are noted as they are before the
\* tick.
BestTick ==
  /\ pc = "idle"
  /\ batch = 0
  /\ queue = << >>
  /\ runs[1].pos <= Len(runs[1].labels)
  /\ EmitTick(BufHuman, runs[1].labels[runs[1].pos])
  /\ \E again \in BOOLEAN :
       /\ again => runs[1].rep < MaxExtraTicks
       /\ runs' = Some([runs[1] EXCEPT !.rep = IF again THEN @ + 1 ELSE @,
                                       !.pos = IF again THEN @ ELSE @ + 1,
                                       !.prev_best = BestOf(by_human),
                                       !.marker0 = current_prepared_family_id,
                                       !.threads0 = Len(threads),
                                       !.last0 = DictGet(last_best_family_id,
                                                         BufHuman, None),
                                       !.tokens0 = token_set])
  /\ ret' = None
  /\ UNCHANGED << pc, cur, pi, processed, max_events, stateVars, memVars, prVars,
                  execVars, feed, repeats, resets, callBase, appended, lastOp,
                  build_args, build_out, pa_defs, det_out, pretasks, action_to_task,
                  ghostVars >>

BestNext ==
  \/ BestTick
  \/ SchedulerSteps
  \/ Worker

SpecBest == InitBest /\ [][BestNext]_vars

\* a tick was emitted and its drain is over
TickDrained ==
  /\ runs # None
  /\ ticks > 0
  /\ pc = "idle" /\ batch = 0 /\ queue = << >>

\* the best family after the tick has a pretask attached
BestHasPretask ==
  /\ BestOf(by_human) # None
  /\ FamilyById(BestOf(by_human)[1]).pre_task # None

\* a routine for the best family, and no other, was started during the tick's drain
OneRoutineStarted ==
  /\ Len(threads) = runs[1].threads0 + 1
  /\ threads[Len(threads)].task = FamilyById(BestOf(by_human)[1]).pre_task[1]

\* C29: on the tick on which a family with an attached pretask becomes the actor's best
\* family, BestFamilyChanged is emitted for it (it becomes the last best family) and
\* exactly one preparation routine is started for it; on every later tick of the run,
\* repeated-label ticks included, none is started.
C29_OnePreparationPerRun ==
  (TickDrained /\ BestHasPretask) =>
     /\ DictGet(last_best_family_id, BufHuman, None) = BestOf(by_human)
     /\ IF runs[1].prev_best # BestOf(by_human)
        THEN OneRoutineStarted
        ELSE Len(threads) = runs[1].threads0

\* the same with the first tick of a run restricted to a family that was not the
\* prepared one when the tick came
OnePreparationUnlessMarked ==
  (TickDrained /\ BestHasPretask) =>
     /\ DictGet(last_best_family_id, BufHuman, None) = BestOf(by_human)
     /\ IF runs[1].prev_best # BestOf(by_human)
        THEN IF runs[1].marker0 # BestOf(by_human)
             THEN OneRoutineStarted
             ELSE Len(threads) = runs[1].threads0
        ELSE Len(threads) = runs[1].threads0

\* BestFamilyChanged is never emitted for the family that was best after the tick before
NoEmitOnLaterTick ==
  [][(Len(queue') > Len(queue) /\ queue'[Len(queue')].name = "BestFamilyChanged")
       => Some(queue'[Len(queue')].family_id) # runs[1].prev_best]_vars

\* a later tick of a run was drained: a repeated label with the family still best
LaterTickDrained ==
  /\ TickDrained
  /\ BestHasPretask
  /\ runs[1].prev_best = BestOf(by_human)

\* the family became best again while it was still the prepared one
SecondRunOfPrepared ==
  /\ TickDrained
  /\ BestHasPretask
  /\ runs[1].prev_best # BestOf(by_human)
  /\ runs[1].marker0 = BestOf(by_human)

\* C30: every preparation run checks the cancellation token that prepare_family
\* created for that run (run tid is the tid-th thread started and its token the tid-th
\* event created), so that a run counts as cancelled only when its own token was set.
C30_RunChecksOwnToken ==
  \A tid \in 1..Len(threads) :
     threads[tid].token # None => threads[tid].token = Some(tid)

\* a token is unset when it is created
FreshTokenUnset ==
  [][Len(threads') > Len(threads) => _pretask_stop_event' \notin token_set']_vars

\* a token that was set stays set
TokenNeverCleared == [][token_set \subseteq token_set']_vars

\* no run checks the token of an earlier run
NoRunChecksEarlierToken ==
  \A tid \in 1..Len(threads) :
     threads[tid].token # None => threads[tid].token[1] >= tid

\* a run that began after its successor was started checks the successor's token
RunChecksLaterToken ==
  \E tid \in 1..Len(threads) :
     threads[tid].token # None /\ threads[tid].token[1] > tid

(***************************************************************************)
(* Recognition, dispatch and reset in the pipeline of main.py              *)
(***************************************************************************)
\* the scheduler has just passed over DispatchTask for an ActionRecognized event
\* because its condition was false
RecognitionSkipped ==
  /\ lastRun.event = "ActionRecognized"
  /\ lastRun.name = "DispatchTask"
  /\ ~lastRun.ran

\* C31: every ActionRecognized event is dispatched, whatever number of PoseTick events
\* was queued before run_until_idle: no ActionRecognized event is consumed with its
\* DispatchTask procedure skipped.
C31_NoRecognitionDropped == ~RecognitionSkipped

\* a recognition is passed over only while the task of another one is being handled
SkippedOnlyWhileExecuting == RecognitionSkipped => lastRun.mode = EXECUTING_TASK

\* the events emitted so far that are still queued or being handled
EventsInHand == {queue[i] : i \in 1..Len(queue)} \cup {cur}

\* the timestamps of the ticks on which an action was recognized
RecognitionTimes == {instLog[i].end_time : i \in 1..Len(instLog)}

\* C32: on a tick on which an action is recognized for the actor no early intent is
\* computed and no BestFamilyChanged is emitted: no EarlyIntentUpdated or
\* BestFamilyChanged event carries the timestamp of such a tick, so that no
\* PrepareFamilyPretask runs for it.
C32_NoIntentOnRecognitionTick ==
  \A e \in EventsInHand :
     e.name \in {"EarlyIntentUpdated", "BestFamilyChanged"} =>
        e.t \notin RecognitionTimes

\* ComputeEarlyIntent has just run for the PoseSegmentUpdated event of a tick on which
\* DetectAction recognized an action, and a family matches the buffer
C32_Witness ==
  /\ lastRun.name = "ComputeEarlyIntent"
  /\ lastRun.ran
  /\ cur.name = "PoseSegmentUpdated"
  /\ cur.t \in RecognitionTimes
  /\ BestOf(by_human) # None

\* the scheduler thread goes on until run_until_idle returns: every handler returns and
\* a join returns after its timeout at the latest
FairSpecBest == SpecBest /\ WF_vars(SchedulerSteps)

RunUntilIdleReturned == pc = "idle" /\ ret # None

\* C33: from an empty queue in RECOGNIZING mode, with every action mapped, one PoseTick
\* followed by run_until_idle dispatches at most 5 events, and run_until_idle returns
\* with the queue empty and the mode RECOGNIZING.  The events of a tick are PoseTick,
\* PoseSegmentUpdated, HumanStateUpdated and either ActionRecognized and TaskCompleted
\* or EarlyIntentUpdated and BestFamilyChanged.
C33_TickDrainsInFiveEvents ==
  /\ [](/\ processed <= 5
        /\ RunUntilIdleReturned =>
             /\ ret[1] <= 5
             /\ queue = << >>
             /\ mode = RECOGNIZING)
  /\ (pc # "idle") ~> RunUntilIdleReturned

\* a drain of five events that ended with a task completed
C33_Witness ==
  /\ RunUntilIdleReturned
  /\ ret = Some(5)
  /\ Len(instLog) > 0

\* a drain of five events that ended with a preparation started
FiveEventsWithPreparation ==
  /\ RunUntilIdleReturned
  /\ ret = Some(5)
  /\ lastRun.name = "PrepareFamilyPretask"

\* C34: with one PoseTick per drain, no actor's recognized-action history or
\* executed-task history ever holds more than one element, and both are empty whenever
\* run_until_idle has returned, in particular after a dispatch: OnTaskCompleted clears
\* them in the drain in which they were written.
C34_HistoriesAtMostOne ==
  \A h \in DOMAIN by_human :
     /\ Len(by_human[h].recognized_actions) <= 1
     /\ Len(by_human[h].executed_tasks) <= 1
     /\ RunUntilIdleReturned =>
          /\ by_human[h].recognized_actions = << >>
          /\ by_human[h].executed_tasks = << >>

\* the task of a recognized action has been executed and its drain is not over: both
\* histories hold one element
C34_Witness ==
  \E h \in DOMAIN by_human :
     /\ Len(by_human[h].recognized_actions) = 1
     /\ Len(by_human[h].executed_tasks) = 1

\* run_until_idle has returned from a drain in which a task was dispatched
ReturnedAfterDispatch ==
  /\ RunUntilIdleReturned
  /\ lastRun.name = "OnTaskCompleted"
  /\ lastRun.ran

\* the family with the longest prefix equal to the last labels, from the families alone
FamBest(labels) ==
  LET mf == {f \in families : IsSuffixOf(f.prefix, labels)}
  IN IF mf = {} THEN None
     ELSE Some((CHOOSE f \in mf : \A g \in mf : Len(g.prefix) <= Len(f.prefix)).family_id)

LastBest == DictGet(last_best_family_id, BufHuman, None)

\* the tick's drain emitted no BestFamilyChanged and started and cancelled no routine
TickLeftPreparationAlone ==
  /\ LastBest = runs[1].last0
  /\ Len(threads) = runs[1].threads0
  /\ token_set = runs[1].tokens0
  /\ current_prepared_family_id = runs[1].marker0

\* no action was recognized on the tick whose drain is over
NoRecognitionOnTick == ticks \notin RecognitionTimes

\* the family that is best now was best after an earlier segment of the same episode
\* and was not best after the tick before
BestAgainInEpisode ==
  /\ instLog = << >>
  /\ BestOf(by_human) # None
  /\ BestOf(by_human) # runs[1].prev_best
  /\ LET buf == pose_label_sequence(by_human[BufHuman])
     IN \E j \in 1..(Len(buf) - 1) : FamBest(SubSeq(buf, 1, j)) = BestOf(by_human)

\* a tick without a best family cancels nothing and keeps the last-best-family record
NoneTickChangesNothing ==
  (TickDrained /\ NoRecognitionOnTick /\ BestOf(by_human) = None) =>
     TickLeftPreparationAlone

\* a token is set during a tick's drain only by dispatch or by prepare_family for a
\* family with a pretask that is not the prepared one
CancelledOnlyByDispatchOrOtherFamily ==
  (TickDrained /\ token_set # runs[1].tokens0) =>
     \/ ~NoRecognitionOnTick
     \/ /\ BestOf(by_human) # None
        /\ BestOf(by_human) # runs[1].last0
        /\ BestOf(by_human) # runs[1].marker0
        /\ FamilyById(BestOf(by_human)[1]).pre_task # None

\* the statement as worded: whenever a family becomes best again later in the same
\* episode, no BestFamilyChanged is emitted and no preparation is started
C35_NeverReemittedInEpisode ==
  /\ NoneTickChangesNothing
  /\ CancelledOnlyByDispatchOrOtherFamily
  /\ (TickDrained /\ BestAgainInEpisode) =>
        /\ LastBest = runs[1].last0
        /\ Len(threads) = runs[1].threads0

\* C35: a tick on which the best family is None neither cancels a preparation nor
\* resets the last-best-family record; when a family is best on a tick and is still the
\* last-best-family record, whether it was best on the tick before or only before a
\* run of ticks without a best family, no BestFamilyChanged is emitted and no
\* preparation is started or cancelled; a token is set only by dispatch or by
\* prepare_family for a different family that has a pretask.
C35_NoneTickKeepsLastBest ==
  /\ NoneTickChangesNothing
  /\ CancelledOnlyByDispatchOrOtherFamily
  /\ (TickDrained /\ NoRecognitionOnTick /\ BestOf(by_human) # None
        /\ BestOf(by_human) = runs[1].last0) => TickLeftPreparationAlone

\* the family is best again right after a tick without a best family, and is still the
\* last-best-family record
C35_Witness ==
  /\ TickDrained
  /\ BestAgainInEpisode
  /\ runs[1].prev_best = None
  /\ BestOf(by_human) = runs[1].last0

\* a tick without a best family was drained while a routine that is not cancelled is
\* alive
NoneTickWithRunningPreparation ==
  /\ TickDrained
  /\ NoRecognitionOnTick
  /\ BestOf(by_human) = None
  /\ \E tid \in 1..Len(threads) : is_alive(tid) /\ tid \notin token_set

\* a task was completed before, and the family that is best now has a pretask and is
\* best for the first time since the reset that followed the task
FirstBestOfNextEpisode ==
  /\ TickDrained
  /\ Len(instLog) > 0
  /\ NoRecognitionOnTick
  /\ BestHasPretask
  /\ BestOf(by_human) # runs[1].prev_best
  /\ LET buf == pose_label_sequence(by_human[BufHuman])
     IN \A j \in 1..(Len(buf) - 1) : FamBest(SubSeq(buf, 1, j)) # BestOf(by_human)

\* C36: after a task has completed, the first tick of the next episode on which a
\* family with a pretask is best emits BestFamilyChanged for it and starts a new
\* preparation routine for it, also when it was the family prepared in the episode
\* before.
C36_NextEpisodePreparesAgain ==
  FirstBestOfNextEpisode =>
     /\ LastBest = BestOf(by_human)
     /\ current_prepared_family_id = BestOf(by_human)
     /\ OneRoutineStarted

\* the family was prepared in the episode before: the routine started then was for
\* the same pretask as the one started now
C36_Witness ==
  /\ FirstBestOfNextEpisode
  /\ Len(threads) = 2
  /\ threads[1].task = threads[2].task

\* the families whose entire prefix equals the last labels of the actor's buffer
FamiliesMatchingBuffer ==
  {f \in IntentFamilies :
     IsSuffixOf(f.prefix, pose_label_sequence(StoreGet(by_human, BufHuman)[BufHuman]))}

\* C37: for any buffer, at most one family of each prefix length has its entire prefix
\* equal to the last labels of the buffer, so that exactly one matching family has the
\* greatest prefix length whenever any family matches.
C37_OneMatchingFamilyPerLength ==
  /\ \A f, g \in FamiliesMatchingBuffer : Len(f.prefix) = Len(g.prefix) => f = g
  /\ FamiliesMatchingBuffer # {} =>
       Cardinality({f \in FamiliesMatchingBuffer :
                      \A g \in FamiliesMatchingBuffer :
                         Len(g.prefix) <= Len(f.prefix)}) = 1

\* families of two different prefix lengths match the buffer at once
C37_Witness ==
  Cardinality({Len(f.prefix) : f \in FamiliesMatchingBuffer}) >= 2

(***************************************************************************)
(* ingest_pose_label under arbitrary timestamps: time.time() is the wall   *)
(* clock, which may be set back between two ticks                          *)
(***************************************************************************)
MaxClock == 3

MaxClockTicks == 4

InitClock ==
  /\ InitCommon
  /\ procedures_by_event = MainRegistrations
  /\ feed = NoFeed
  /\ build_args = None
  /\ runs = << >>
  /\ pretasks = PRETASK_DEFINITIONS
  /\ action_to_task = ACTION_TO_TASK
  /\ pa_defs = action_defs

ClockUnchanged ==
  UNCHANGED << schedVars, ctlVars, stateVars, human_states, prVars, execVars, batch,
               feed, repeats, callBase, appended, build_args, build_out, pa_defs,
               det_out, pretasks, action_to_task, ghostVars >>

\* P.ingest_pose_label(pose_label, human_id, t) with any timestamp; runs keeps the
\* timestamps of the ticks of the episode
ClockIngest ==
  /\ ticks < MaxClockTicks
  /\ \E pose_label \in BufLabels, t \in 0..MaxClock :
       /\ by_human' = ingest_pose_label(by_human, pose_label, BufHuman, t).store
       /\ lastOp' = [kind |-> "ingest", human_id |-> BufHuman, label |-> pose_label,
                     t |-> t]
       /\ runs' = Append(runs, t)
  /\ ticks' = ticks + 1
  /\ UNCHANGED resets
  /\ ClockUnchanged

\* reset_episode's memory_store.clear_human(human_id)
ClockReset ==
  /\ resets < MaxResets
  /\ lastOp.kind = "ingest"
  /\ by_human' = clear_human(by_human, BufHuman)
  /\ lastOp' = [kind |-> "reset", human_id |-> BufHuman, label |-> "", t |-> lastOp.t]
  /\ runs' = << >>
  /\ resets' = resets + 1
  /\ UNCHANGED ticks
  /\ ClockUnchanged

ClockNext ==
  \/ ClockIngest
  \/ ClockReset

SpecClock == InitClock /\ [][ClockNext]_vars

\* the timestamps of the ticks of the episode never went back
TimestampsNonDecreasing == \A i \in 1..(Len(runs) - 1) : runs[i] <= runs[i + 1]

\* every segment starts no later than it ends
StartBeforeEnd ==
  \A i \in 1..Len(Segments(by_human, BufHuman)) :
    Segments(by_human, BufHuman)[i].start_time <= Segments(by_human, BufHuman)[i].end_time

\* each segment ends no later than the next one starts
ConsecutiveInOrder ==
  \A i \in 1..(Len(Segments(by_human, BufHuman)) - 1) :
    Segments(by_human, BufHuman)[i].end_time
      <= Segments(by_human, BufHuman)[i + 1].start_time

\* an ingest keeps every segment that stays in the buffer, with its label and start,
\* and with an end_time no smaller than before; d is the number of segments the trim
\* to MAX_POSE_BUFFER_LEN dropped from the front
EndTimeNeverDecreases ==
  LET segs == Segments(by_human, BufHuman)
      segs2 == Segments(by_human', BufHuman)
      same == segs # << >> /\ LastOf(segs).label = lastOp'.label
      d == IF same THEN 0 ELSE Len(segs) + 1 - Len(segs2)
  IN (ticks' # ticks) =>
       \A i \in (d + 1)..Len(segs) :
         /\ segs2[i - d].label = segs[i].label
         /\ segs2[i - d].start_time = segs[i].start_time
         /\ segs2[i - d].end_time >= segs[i].end_time

\* C38: every segment satisfies start_time <= end_time and its end_time never
\* decreases once it is created; when the timestamps of the ticks are non-decreasing,
\* consecutive segments of a buffer satisfy previous.end_time <= next.start_time.
C38_SegmentTimesOrdered ==
  /\ [](StartBeforeEnd /\ (TimestampsNonDecreasing => ConsecutiveInOrder))
  /\ [][EndTimeNeverDecreases]_vars

\* the timestamps never went back, the first segment was extended by a same-label
\* tick, and two more segments were appended after it
C38_Witness ==
  /\ TimestampsNonDecreasing
  /\ Len(Segments(by_human, BufHuman)) = 3
  /\ Segments(by_human, BufHuman)[1].end_time > Segments(by_human, BufHuman)[1].start_time

(***************************************************************************)
(* main.py with a recognized action that has no entry in ACTION_TO_TASK    *)
(***************************************************************************)
MappingFeeds ==
  { << "sitting", "standing", "walking", "bowing", "sitting", "standing" >> }

InitMapping ==
  /\ InitCommon
  /\ procedures_by_event = MainRegistrations
  /\ feed = NoFeed
  /\ build_args = None
  /\ pa_defs = action_defs
  /\ pretasks = PRETASK_DEFINITIONS
  /\ action_to_task \in {ACTION_TO_TASK, DictWithout(ACTION_TO_TASK, "washing_hands")}
  /\ \E labels \in MappingFeeds :
       runs = Some([labels |-> labels, pos |-> 1, rep |-> 0, prev_best |-> None,
                    marker0 |-> None, threads0 |-> 0, last0 |-> None,
                    tokens0 |-> {}])

SpecMapping == InitMapping /\ [][BestNext]_vars

\* the scheduler thread goes on until run_until_idle returns or raises, and the tick
\* loop takes the next tick of the stream whenever run_until_idle has returned
FairSpecMapping == SpecMapping /\ WF_vars(SchedulerSteps) /\ WF_vars(BestTick)

\* detect_action recognized an action that has no entry in the mapping
UnmappedRecognized ==
  \E i \in 1..Len(instLog) : instLog[i].name \notin DOMAIN action_to_task

\* the stream has a tick after the one that completed the action
StreamGoesOn == runs[1].pos <= Len(runs[1].labels)

\* a tick later than the one of the recognition was emitted
LaterTickEmitted ==
  \E i \in 1..Len(instLog) :
     instLog[i].name \notin DOMAIN action_to_task /\ ticks > instLog[i].end_time

\* dispatch raised, the mode is EXECUTING_TASK and the episode was not reset
RaisedWhileExecuting ==
  /\ pc = "raised"
  /\ mode = EXECUTING_TASK
  /\ Len(by_human[BufHuman].recognized_actions) = 1
  /\ by_human[BufHuman].pose_segments # << >>

\* the statement as written: after the raise the mode is EXECUTING_TASK, the episode
\* is not reset, and the tick loop still takes the next tick of the stream, whose
\* segment is then ingested
C39_LaterTicksStillIngested ==
  pc = "raised" => (RaisedWhileExecuting /\ (StreamGoesOn => ENABLED BestTick))

\* after a drain that returned, the tick loop takes the next tick of the stream
NextTickTakenAfterDrain == (TickDrained /\ StreamGoesOn) => ENABLED BestTick

\* C39: if dispatch raises because of a missing task mapping, SystemMode stays
\* EXECUTING_TASK and the actor's episode is not reset; the error leaves run_until_idle
\* and the tick loop, so that no later tick is emitted, no procedure runs again, no
\* segment is ingested and the mode never returns to RECOGNIZING.
C39_RaiseEndsTheTickLoop ==
  /\ [](UnmappedRecognized => ~LaterTickEmitted)
  /\ [](pc = "raised" => RaisedWhileExecuting)
  /\ [][pc = "raised" =>
          UNCHANGED << pc, mode, by_human, queue, ticks, lastRun, processed >>]_vars
  /\ UnmappedRecognized ~> [](pc = "raised")

\* dispatch raised while the stream still had ticks to deliver
C39_Witness == RaisedWhileExecuting /\ StreamGoesOn /\ UnmappedRecognized

(***************************************************************************)
(* Preparation threads and the tokens they check                           *)
(***************************************************************************)
\* the thread is alive and checks, in execute_task, a token that is not set
ChecksUnsetToken(tid) ==
  /\ is_alive(tid)
  /\ threads[tid].token # None
  /\ threads[tid].token[1] \notin token_set

\* C40: at any time at most one preparation thread is alive whose cancellation token
\* is unset: once prepare_family has started a new routine, every earlier preparation
\* thread that is still alive checks a token that has been set.
C40_OneThreadWithUnsetToken ==
  /\ Cardinality({tid \in 1..Len(threads) : ChecksUnsetToken(tid)}) <= 1
  /\ \A tid \in 1..(Len(threads) - 1) : ~ChecksUnsetToken(tid)

\* an earlier thread outlived its join and checks the set token created for it
EarlierThreadChecksSetToken ==
  \E tid \in 1..(Len(threads) - 1) :
     /\ is_alive(tid)
     /\ threads[tid].token = Some(tid)
     /\ tid \in token_set

====
